---- MODULE Spec2Model ----
(***************************************************************************)
(* Model of glider's Raspberry Pi GPIO board (PiGPIOBoard): the connection *)
(* state machine, the pin bookkeeping, the coroutines of the public        *)
(* operations cut at every await, and the backend (pigpio daemon session   *)
(* or gpiozero devices) that executes the off-loaded calls.                *)
(* Beside it: the board's persisted configuration (to_dict / from_dict),   *)
(* the video FrameWriterThread (producer, controlling thread and writer    *)
(* threads) and the AudioRecorder (event loop thread and audio callback).  *)
(***************************************************************************)
EXTENDS Integers, Sequences, FiniteSets, TLC

\* ---------------------------------------------------------------- bounds
\* operations the consumer issues in one behaviour
MaxOps == 4
\* backend calls that raise or hang in one behaviour
MaxFaults == 1

\* consumer tasks that may have an operation in flight at the same time
Tasks == {"A", "B"}
\* the pins the consumer uses (both in RPI_GPIO_PINS, both PWM-capable)
PinIds == {12, 13}
\* (mode, type) pairs the consumer passes to set_pin_mode
PinSetups ==
    { <<"OUTPUT", "DIGITAL">>, <<"INPUT", "DIGITAL">>,
      <<"OUTPUT", "PWM">>, <<"OUTPUT", "SERVO">> }
\* values the consumer writes: one that is clamped
AnalogInputs == {300}
ServoInputs == {200}

\* ------------------------------------------------- python dict (ordered)
\* A dict is the sequence of its items in insertion order.
DictHas(d, k) == \E i \in 1..Len(d) : d[i].k = k
DictGet(d, k) == d[CHOOSE i \in 1..Len(d) : d[i].k = k].v
DictSet(d, k, v) ==
    IF DictHas(d, k)
    THEN [i \in 1..Len(d) |-> IF d[i].k = k THEN [k |-> k, v |-> v] ELSE d[i]]
    ELSE Append(d, [k |-> k, v |-> v])
DictKeys(d) == [i \in 1..Len(d) |-> d[i].k]
EmptyDict == <<>>

VARIABLES
    state,                \* BaseBoard._state
    port,                 \* self._port: "remote" (a hostname) or "local" (None)
    auto_reconnect,       \* self._auto_reconnect
    gpiozero_available,   \* self._gpiozero_available
    lgpio_available,      \* self._lgpio_available
    pigpio_available,     \* self._pigpio_available
    pigpio_pi,            \* self._pigpio_pi: TRUE when it holds a session
    devices,              \* self._devices
    pin_modes,            \* self._pin_modes
    pin_types,            \* self._pin_types
    pin_values,           \* self._pin_values
    pigpio_callbacks,     \* self._pigpio_callbacks
    event_loop,           \* self._event_loop is set
    reconnect_task,       \* the task running the reconnect loop's connect()
    libs,                 \* the libraries that can be imported
    hw,                   \* what each pin is driven with
    sessions,             \* open pigpio sessions
    orphans,              \* pigpio.pi calls whose awaiting task was cancelled
    next_dev,             \* identity of the next gpiozero device
    cb_active,            \* live pigpio change-notification subscriptions per pin
    applied,              \* per pin, the operation whose write was applied last
    task,                 \* the coroutine of each consumer task
    nops,                 \* operations issued so far
    faults,               \* backend calls that raised or hung so far
    pin_level,            \* the physical level of each pin
    edges,                \* the transitions of subscribed input pins, in order
    thread,               \* edges the backend's callback thread has yet to handle
    ready,                \* the event loop's queue of scheduled callbacks
    delivered,            \* the notifications the observers have received
    board_id,             \* BaseBoard._id
    cfg_data,             \* the dict a consumer holds (to_dict's result, edited or not)
    cfg_copy,             \* the instance from_dict returned last, with its input
    cfg_made,             \* instances from_dict has constructed so far
    fw_max,               \* FrameWriterThread._max_queue_size
    fw_queue,             \* FrameWriterThread._queue
    fw_stop,              \* FrameWriterThread._stop_event is set
    fw_thread,            \* FrameWriterThread._thread: 0 (None) or a thread
    fw_threads,           \* the writer threads created so far, each at its position in _run
    fw_written,           \* FrameWriterThread._frames_written
    fw_dropped,           \* FrameWriterThread._frames_dropped
    fw_user,              \* the thread that calls start() and stop()
    fw_calls,             \* the calls of writer.write so far, in order
    fw_accepted,          \* the frames whose enqueue() returned True
    fw_attempts,          \* the calls of enqueue() so far
    fw_mark,              \* the calls of enqueue() made before the last stop() was called
    ar_available,         \* AudioRecorder._is_available
    ar_state,             \* AudioRecorder._state
    ar_stream,            \* AudioRecorder._stream: 0 (None) or a stream
    ar_wav,               \* AudioRecorder._wav_file: 0 (None) or an open WAV file
    ar_file_path,         \* AudioRecorder._file_path: 0 (None) or the path of a file
    ar_sample_count,      \* AudioRecorder._sample_count
    ar_main,              \* the event loop thread: its position in start() or stop()
    ar_cb,                \* the audio thread: its position in _audio_callback
    ar_active,            \* the streams that deliver audio blocks
    ar_streams,           \* streams created so far
    ar_frames,            \* per WAV file created so far, the blocks written to it
    ar_open,              \* the WAV files that are open
    ar_blocks,            \* audio blocks delivered so far
    ar_faults             \* library calls that raised so far

boardVars == <<state, port, auto_reconnect, gpiozero_available, lgpio_available,
               pigpio_available, pigpio_pi, devices, pin_modes, pin_types,
               pin_values, pigpio_callbacks, event_loop, reconnect_task>>
envVars == <<libs, hw, sessions, orphans, next_dev, cb_active, applied>>
flagVars == <<gpiozero_available, lgpio_available, pigpio_available, pigpio_pi>>
dictVars == <<devices, pin_modes, pin_types, pin_values, pigpio_callbacks>>
fixedVars == <<port, auto_reconnect, libs>>
cbVars == <<pin_level, edges, thread, ready, delivered>>
cfgVars == <<board_id, cfg_data, cfg_copy, cfg_made>>
\* what the board's coroutines and its input callbacks never touch
fwVars == <<fw_max, fw_queue, fw_stop, fw_thread, fw_threads, fw_written,
            fw_dropped, fw_user, fw_calls, fw_accepted, fw_attempts, fw_mark>>
arVars == <<ar_available, ar_state, ar_stream, ar_wav, ar_file_path, ar_sample_count,
            ar_main, ar_cb, ar_active, ar_streams, ar_frames, ar_open, ar_blocks,
            ar_faults>>
extVars == <<cfgVars, fwVars, arVars>>
sideVars == <<cbVars, extVars>>
hostVars == <<boardVars, envVars, task, nops, faults, cbVars>>
vars == <<boardVars, envVars, task, nops, faults, cbVars, extVars>>

\* a python dict with string keys is the function from its keys to its values
NoDict == [k \in {} |-> 0]
\* no instance has been reconstructed
NoCopy == [made |-> FALSE]

NoCall == [st |-> "none", fn |-> "-", pin |-> 0, val |-> 0, dev |-> 0, kind |-> "-"]
Idle == [pc |-> "idle", name |-> "-", id |-> 0, pin |-> 0, mode |-> "-",
         ptype |-> "-", val |-> 0, todo |-> <<>>, idx |-> 0, n0 |-> 0,
         call |-> NoCall, calls |-> <<>>, res |-> "-"]
Floating == [fn |-> "none", val |-> 0, dev |-> 0]

\* PiGPIOBoard.__init__ (and BaseBoard.__init__ for state and port)
BoardInit ==
    /\ state = "DISCONNECTED"
    /\ port \in {"remote", "local"}
    /\ gpiozero_available = FALSE
    /\ lgpio_available = FALSE
    /\ pigpio_available = FALSE
    /\ pigpio_pi = FALSE
    /\ devices = EmptyDict
    /\ pin_modes = EmptyDict
    /\ pin_types = EmptyDict
    /\ pin_values = EmptyDict
    /\ pigpio_callbacks = EmptyDict
    /\ event_loop = FALSE
    /\ reconnect_task = "None"
    \* connect() imports pigpio alone when a port is given, and lgpio only
    \* when gpiozero is missing
    /\ libs \in { l \in [pigpio : BOOLEAN, gpiozero : BOOLEAN, lgpio : BOOLEAN] :
                    IF port = "remote"
                    THEN ~l.gpiozero /\ ~l.lgpio
                    ELSE ~l.pigpio /\ ~(l.gpiozero /\ l.lgpio) }
    /\ hw = [p \in PinIds |-> Floating]
    /\ sessions = 0
    /\ orphans = 0
    /\ next_dev = 1
    /\ cb_active = [p \in PinIds |-> 0]
    /\ applied = [p \in PinIds |-> 0]
    /\ task = [t \in Tasks |-> Idle]
    /\ nops = 0
    /\ faults = 0
    /\ pin_level = [p \in PinIds |-> 0]
    /\ edges = <<>>
    /\ thread = <<>>
    /\ ready = <<>>
    /\ delivered = <<>>

\* no dict has been made of the board
CfgIdle ==
    /\ cfg_data = NoDict
    /\ cfg_copy = NoCopy
    /\ cfg_made = 0

\* the caller of start() and stop() is in neither
UserIdle == [pc |-> "idle", op |-> "-", res |-> "-", n |-> 0]

\* FrameWriterThread.__init__ with max_queue_size = n
FwInit(n) ==
    /\ fw_max = n
    /\ fw_queue = <<>>
    /\ fw_stop = FALSE
    /\ fw_thread = 0
    /\ fw_threads = <<>>
    /\ fw_written = 0
    /\ fw_dropped = 0
    /\ fw_user = UserIdle
    /\ fw_calls = <<>>
    /\ fw_accepted = {}
    /\ fw_attempts = 0
    /\ fw_mark = 0

\* the event loop thread runs no coroutine of the recorder
MainIdle == [pc |-> "idle", op |-> "-", res |-> 0, n |-> 0]
\* the audio thread is outside _audio_callback
CbIdle == [pc |-> "idle", stream |-> 0]

\* AudioRecorder.__init__, with sounddevice importable or not
ArInit(avail) ==
    /\ ar_available = avail
    /\ ar_state = "IDLE"
    /\ ar_stream = 0
    /\ ar_wav = 0
    /\ ar_file_path = 0
    /\ ar_sample_count = 0
    /\ ar_main = MainIdle
    /\ ar_cb = CbIdle
    /\ ar_active = {}
    /\ ar_streams = 0
    /\ ar_frames = <<>>
    /\ ar_open = {}
    /\ ar_blocks = 0
    /\ ar_faults = 0

\* a board constructed with the default auto_reconnect
Init ==
    /\ BoardInit
    /\ auto_reconnect = TRUE    \* the constructor's default
    /\ board_id = "id-1"
    /\ CfgIdle
    /\ FwInit(1)
    /\ ArInit(TRUE)

\* ------------------------------------------------------------ BaseBoard
\* BaseBoard.is_connected (glider/hal/base_board.py is not part of src/)
IsConnected == state = "CONNECTED"

\* BaseBoard._set_state
SetState(s) == state' = s

\* the record of a task whose operation has ended with result res
Done(name, id, res) == [Idle EXCEPT !.name = name, !.id = id, !.res = res]
\* ... keeping the backend calls the operation made (task[t].calls)
Ended(r, res) == [Done(r.name, r.id, res) EXCEPT !.calls = r.calls]
Return(t, res) == [task EXCEPT ![t] = Ended(task[t], res)]

\* asyncio.to_thread(fn, ...): the call is handed to a worker thread
Call(fn, pin, val) ==
    [st |-> "pending", fn |-> fn, pin |-> pin, val |-> val, dev |-> 0, kind |-> "-"]
\* the same for a method of the gpiozero device d
DevCall(fn, pin, val, d) ==
    [st |-> "pending", fn |-> fn, pin |-> pin, val |-> val, dev |-> d.id, kind |-> d.kind]
Running(t, name, pc, call) ==
    [Idle EXCEPT !.pc = pc, !.name = name, !.id = nops + 1, !.call = call]
Resumable(t, pc) == task[t].pc = pc /\ task[t].call.st \in {"ok", "raised"}

\* the consumer issues one more operation on task t
Begin(t) ==
    /\ task[t].pc = "idle"
    /\ nops < MaxOps
    /\ nops' = nops + 1

\* ---------------------------------------------------------------- connect
\* mutant: True is returned with the state left as it was
ConnectSucceedsStale(t, tk) ==
    /\ state' = state
    /\ task' = [tk EXCEPT ![t] = Ended(tk[t], "True")]

\* connect() ends well: CONNECTED, True
ConnectSucceeds(t, tk) ==
    /\ SetState("CONNECTED")
    /\ task' = [tk EXCEPT ![t] = Ended(tk[t], "True")]

\* mutant: a failed connect() falls back to DISCONNECTED
ConnectFailsDisconnected(t, tk) ==
    /\ SetState("DISCONNECTED")
    /\ task' = [tk EXCEPT ![t] = Ended(tk[t], "False")]

\* connect() ends on one of its failure paths: ERROR, False
ConnectFails(t, tk) ==
    /\ SetState("ERROR")
    /\ task' = [tk EXCEPT ![t] = Ended(tk[t], "False")]

\* connect(), from its call to the first await (or to its return)
ConnectBody(t, byLoop) ==
    /\ Begin(t)
    /\ event_loop' = TRUE
    /\ LET tk == [task EXCEPT ![t] = [Idle EXCEPT !.name = "connect", !.id = nops + 1]] IN
       IF port = "remote"
       THEN IF libs.pigpio
            THEN /\ SetState("CONNECTING")
                 /\ task' = [tk EXCEPT ![t].pc = "connect_pi",
                                       ![t].call = Call("pi", 0, 0)]
                 /\ reconnect_task' = IF byLoop THEN t ELSE reconnect_task
                 /\ UNCHANGED <<gpiozero_available, lgpio_available>>
            ELSE \* ImportError
                 /\ ConnectFails(t, tk)
                 /\ UNCHANGED <<gpiozero_available, lgpio_available, reconnect_task>>
       ELSE /\ gpiozero_available' = (gpiozero_available \/ libs.gpiozero)
            /\ lgpio_available' =
                 IF ~gpiozero_available' THEN (lgpio_available \/ libs.lgpio)
                 ELSE lgpio_available
            /\ IF ~gpiozero_available' /\ ~lgpio_available'
               THEN ConnectFails(t, tk)
               ELSE ConnectSucceeds(t, tk)
            /\ UNCHANGED reconnect_task
    /\ UNCHANGED <<pigpio_available, pigpio_pi, dictVars, fixedVars, hw, sessions,
                   orphans, next_dev, cb_active, applied, faults>>
    /\ UNCHANGED sideVars

\* an explicit connect() by the consumer, which calls it from DISCONNECTED
\* or ERROR only (the documented precondition of connect)
Connect(t) ==
    /\ state \in {"DISCONNECTED", "ERROR"}
    /\ ConnectBody(t, FALSE)

\* BaseBoard's reconnect loop: a connect() attempt while in ERROR
ReconnectAttempt(t) ==
    /\ auto_reconnect
    /\ state = "ERROR"
    /\ reconnect_task = "None"
    /\ ConnectBody(t, TRUE)

\* connect() resumed with the result of pigpio.pi(port)
ConnectResume(t) ==
    /\ Resumable(t, "connect_pi")
    /\ LET c == task[t].call IN
       IF c.st = "ok" /\ c.val = 1
       THEN /\ pigpio_pi' = TRUE
            /\ pigpio_available' = TRUE
            /\ ConnectSucceeds(t, task)
       ELSE IF c.st = "ok"
       THEN /\ pigpio_pi' = FALSE
            /\ ConnectFails(t, task)
            /\ UNCHANGED pigpio_available
       ELSE /\ ConnectFails(t, task)
            /\ UNCHANGED <<pigpio_available, pigpio_pi>>
    /\ reconnect_task' = IF reconnect_task = t THEN "None" ELSE reconnect_task
    /\ UNCHANGED <<gpiozero_available, lgpio_available, dictVars, event_loop,
                   fixedVars, hw, sessions, orphans, next_dev, cb_active, applied,
                   nops, faults>>
    /\ UNCHANGED sideVars

\* the consumer cancels the task of a connect() that awaits pigpio.pi
\* (Task.cancel, or the expiry of asyncio.wait_for): CancelledError is no
\* Exception, so connect()'s handler does not run and the state stays as it
\* is; the worker thread goes on with pigpio.pi
CancelConnect(t) ==
    /\ task[t].pc = "connect_pi"
    /\ nops < MaxOps
    /\ nops' = nops + 1
    /\ task' = Return(t, "cancelled")
    /\ orphans' = IF task[t].call.st = "pending" THEN orphans + 1 ELSE orphans
    /\ reconnect_task' = IF reconnect_task = t THEN "None" ELSE reconnect_task
    /\ UNCHANGED <<state, flagVars, dictVars, event_loop, fixedVars, hw, sessions,
                   next_dev, cb_active, applied, faults>>
    /\ UNCHANGED sideVars

\* ------------------------------------------------------------- disconnect
\* BaseBoard.stop_reconnect: the reconnect loop's task is cancelled
StopReconnect ==
    IF reconnect_task = "None" THEN task
    ELSE [task EXCEPT
            ![reconnect_task] = Ended(task[reconnect_task], "cancelled")]

\* the worker thread of a cancelled connect() still runs pigpio.pi
OrphansAfterStop ==
    IF reconnect_task # "None" /\ task[reconnect_task].call.st = "pending"
    THEN orphans + 1 ELSE orphans

\* the safe-value call disconnect() makes for a pin (pigpio)
ResetCall(pin) ==
    LET ty == IF DictHas(pin_types, pin) THEN DictGet(pin_types, pin) ELSE "None" IN
    IF ty = "PWM" THEN Call("set_PWM_dutycycle", pin, 0)
    ELSE IF ty = "SERVO" THEN Call("set_servo_pulsewidth", pin, 0)
    ELSE Call("write", pin, 0)

\* mutant: a failed cleanup call keeps disconnect() from setting the state
DisconnectFinishUnlessFailed(t, tk) ==
    /\ devices' = EmptyDict
    /\ pin_modes' = EmptyDict
    /\ pin_types' = EmptyDict
    /\ pin_values' = EmptyDict
    /\ state' = IF \E i \in 1..Len(tk[t].calls) : ~tk[t].calls[i].ok
                 THEN state ELSE "DISCONNECTED"
    /\ task' = [tk EXCEPT ![t] = Ended(tk[t], "returned")]

\* the end of disconnect(): bookkeeping cleared, state DISCONNECTED
DisconnectFinish(t, tk) ==
    /\ devices' = EmptyDict
    /\ pin_modes' = EmptyDict
    /\ pin_types' = EmptyDict
    /\ pin_values' = EmptyDict
    /\ SetState("DISCONNECTED")
    /\ task' = [tk EXCEPT ![t] = Ended(tk[t], "returned")]

\* the pigpio branch of disconnect() from the pin loop on, keys being the
\* pins the loop has not visited yet
DisconnectPigpio(t, tk, keys) ==
    IF pigpio_pi /\ keys # <<>>
    THEN /\ task' = [tk EXCEPT ![t].pc = "disc_reset",
                               ![t].call = ResetCall(Head(keys)),
                               ![t].todo = Tail(keys)]
         /\ UNCHANGED <<state, devices, pin_modes, pin_types, pin_values,
                        pigpio_pi, pigpio_available>>
    ELSE IF pigpio_pi
    THEN /\ task' = [tk EXCEPT ![t].pc = "disc_stop",
                               ![t].call = Call("stop", 0, 0),
                               ![t].todo = <<>>]
         /\ UNCHANGED <<state, devices, pin_modes, pin_types, pin_values,
                        pigpio_pi, pigpio_available>>
    ELSE \* self._pigpio_pi is None: every remaining call raises AttributeError
         /\ pigpio_pi' = FALSE
         /\ pigpio_available' = FALSE
         /\ DisconnectFinish(t, tk)

\* the gpiozero branch of disconnect(): the loop over self._devices.items(),
\* about to fetch item number i
DisconnectLocal(t, tk, i) ==
    IF Len(devices) # tk[t].n0
    THEN \* RuntimeError: dictionary changed size during iteration
         /\ task' = [tk EXCEPT ![t] = Ended(tk[t], "raised")]
         /\ UNCHANGED <<state, devices, pin_modes, pin_types, pin_values>>
    ELSE IF i <= Len(devices)
    THEN /\ task' = [tk EXCEPT ![t].pc = "disc_close",
                               ![t].idx = i,
                               ![t].call = DevCall("close", devices[i].k, 0, devices[i].v)]
         /\ UNCHANGED <<state, devices, pin_modes, pin_types, pin_values>>
    ELSE DisconnectFinish(t, tk)

\* cb.cancel() for every pigpio callback; the ones in bad raise
CancelAll(bad) ==
    /\ cb_active' = [p \in PinIds |->
          IF DictHas(pigpio_callbacks, p) /\ p \notin bad /\ cb_active[p] > 0
          THEN cb_active[p] - 1 ELSE cb_active[p]]
    /\ faults' = faults + Cardinality(bad)

\* the calls CancelAll makes, as the operation's call history
CancelCalls(bad) ==
    [i \in 1..Len(pigpio_callbacks) |->
        [fn |-> "cancel", pin |-> pigpio_callbacks[i].k, val |-> 0,
         ok |-> pigpio_callbacks[i].k \notin bad]]

\* disconnect(), from its call to the first await (or to its return)
Disconnect(t) ==
    /\ Begin(t)
    /\ reconnect_task' = "None"
    /\ orphans' = OrphansAfterStop
    /\ LET tk == [StopReconnect EXCEPT ![t] = [Idle EXCEPT !.name = "disconnect",
                                                          !.id = nops + 1,
                                                          !.n0 = Len(devices)]] IN
       IF pigpio_available /\ pigpio_pi
       THEN /\ \E bad \in SUBSET {pigpio_callbacks[i].k : i \in 1..Len(pigpio_callbacks)} :
                 /\ Cardinality(bad) <= MaxFaults - faults
                 /\ CancelAll(bad)
                 /\ DisconnectPigpio(t, [tk EXCEPT ![t].calls = CancelCalls(bad)],
                                     DictKeys(pin_modes))
            /\ pigpio_callbacks' = EmptyDict
       ELSE /\ DisconnectLocal(t, tk, 1)
            /\ UNCHANGED <<pigpio_callbacks, pigpio_pi, pigpio_available, cb_active,
                           faults>>
    /\ UNCHANGED <<gpiozero_available, lgpio_available, event_loop, fixedVars, hw,
                   sessions, next_dev, applied>>
    /\ UNCHANGED sideVars

\* disconnect() resumed after the reset call of one pin
DisconnectResetResume(t) ==
    /\ Resumable(t, "disc_reset")
    /\ DisconnectPigpio(t, [task EXCEPT ![t].call = NoCall], task[t].todo)
    /\ UNCHANGED <<gpiozero_available, lgpio_available, pigpio_callbacks, event_loop,
                   reconnect_task, envVars, nops, faults, port, auto_reconnect>>
    /\ UNCHANGED sideVars

\* disconnect() resumed after self._pigpio_pi.stop
DisconnectStopResume(t) ==
    /\ Resumable(t, "disc_stop")
    /\ pigpio_pi' = FALSE
    /\ pigpio_available' = FALSE
    /\ DisconnectFinish(t, task)
    /\ UNCHANGED <<gpiozero_available, lgpio_available, pigpio_callbacks, event_loop,
                   reconnect_task, envVars, nops, faults, port, auto_reconnect>>
    /\ UNCHANGED sideVars

\* disconnect() resumed after device.close
DisconnectCloseResume(t) ==
    /\ Resumable(t, "disc_close")
    /\ DisconnectLocal(t, [task EXCEPT ![t].call = NoCall], task[t].idx + 1)
    /\ UNCHANGED <<flagVars, pigpio_callbacks, event_loop, reconnect_task, envVars,
                   nops, faults, port, auto_reconnect>>
    /\ UNCHANGED sideVars

\* ----------------------------------------------------------- set_pin_mode
\* the gpiozero class _set_pin_mode_gpiozero instantiates
GzKind(mode, ptype) ==
    IF ptype = "PWM" THEN "pwm"
    ELSE IF ptype = "SERVO" THEN "servo"
    ELSE IF mode = "OUTPUT" THEN "dout" ELSE "din"

CreateCall(pin, mode, ptype) ==
    [st |-> "pending", fn |-> "create", pin |-> pin,
     val |-> IF mode = "INPUT_PULLUP" THEN 1 ELSE 0, dev |-> 0,
     kind |-> GzKind(mode, ptype)]

\* set_pin_mode's bookkeeping once the backend has configured the pin
RecordAssignment(pin, mode, ptype) ==
    /\ pin_modes' = DictSet(pin_modes, pin, mode)
    /\ pin_types' = DictSet(pin_types, pin, ptype)

\* mutant: only DISCONNECTED is refused
NotConnectedLoose == state = "DISCONNECTED"

\* the check every read and write starts with
NotConnected == ~IsConnected

\* set_pin_mode(), from its call to the first await (or to its raise)
SetPinMode(t, pin, mode, ptype) ==
    /\ Begin(t)
    /\ LET run(pc, c) == [Running(t, "set_pin_mode", pc, c) EXCEPT
                            !.pin = pin, !.mode = mode, !.ptype = ptype] IN
       task' = [task EXCEPT ![t] =
          IF NotConnected THEN Done("set_pin_mode", nops + 1, "NotConnected")
          ELSE IF pigpio_available /\ pigpio_pi
          THEN run("spm_mode", Call("set_mode", pin,
                        IF ptype = "DIGITAL" /\ mode # "OUTPUT" THEN 0 ELSE 1))
          ELSE IF gpiozero_available
          THEN IF DictHas(devices, pin)
               THEN run("spm_close", DevCall("close", pin, 0, DictGet(devices, pin)))
               ELSE run("spm_create", CreateCall(pin, mode, ptype))
          ELSE Done("set_pin_mode", nops + 1, "NoLibrary")]
    /\ UNCHANGED <<boardVars, envVars, faults>>
    /\ UNCHANGED sideVars

\* _set_pin_mode_pigpio resumed after pi.set_mode
SpmModeResume(t) ==
    /\ Resumable(t, "spm_mode")
    /\ LET r == task[t] IN
       IF r.call.st = "raised"
       THEN task' = Return(t, "raised") /\ UNCHANGED <<pin_modes, pin_types>>
       ELSE IF r.ptype = "DIGITAL" /\ r.mode # "OUTPUT"
       THEN /\ task' = [task EXCEPT
                  ![t].pc = "spm_pull",
                  ![t].call = Call("set_pull_up_down", r.pin,
                                   IF r.mode = "INPUT_PULLUP" THEN 1
                                   ELSE IF r.mode = "INPUT_PULLDOWN" THEN 2 ELSE 0)]
            /\ UNCHANGED <<pin_modes, pin_types>>
       ELSE /\ RecordAssignment(r.pin, r.mode, r.ptype)
            /\ task' = Return(t, "returned")
    /\ UNCHANGED <<state, fixedVars, flagVars, devices, pin_values, pigpio_callbacks,
                   event_loop, reconnect_task, hw, sessions, orphans, next_dev,
                   cb_active, applied, nops, faults>>
    /\ UNCHANGED sideVars

\* _set_pin_mode_pigpio resumed after pi.set_pull_up_down:
\* _setup_pigpio_input_callback, then set_pin_mode's bookkeeping
SpmPullResume(t) ==
    /\ Resumable(t, "spm_pull")
    /\ LET r == task[t]
           had == DictHas(pigpio_callbacks, r.pin)
           entry(fn, ok) == [fn |-> fn, pin |-> r.pin, val |-> 0, ok |-> ok]
           dropped == [cb_active EXCEPT ![r.pin] = IF @ > 0 THEN @ - 1 ELSE @]
           end(res, cs) == [task EXCEPT ![t] = Ended([r EXCEPT !.calls = @ \o cs], res)] IN
       IF r.call.st = "raised"
       THEN /\ task' = Return(t, "raised")
            /\ UNCHANGED <<pin_modes, pin_types, pigpio_callbacks, cb_active, faults>>
       ELSE \/ \* the old callback's cancel() raises
               /\ had /\ faults < MaxFaults
               /\ faults' = faults + 1
               /\ task' = end("raised", <<entry("cancel", FALSE)>>)
               /\ UNCHANGED <<pin_modes, pin_types, pigpio_callbacks, cb_active>>
            \/ \* self._pigpio_pi is None, or pi.callback raises
               /\ ~pigpio_pi \/ faults < MaxFaults
               /\ faults' = IF pigpio_pi THEN faults + 1 ELSE faults
               /\ cb_active' = IF had THEN dropped ELSE cb_active
               /\ task' = end("raised",
                      (IF had THEN <<entry("cancel", TRUE)>> ELSE <<>>)
                      \o (IF pigpio_pi THEN <<entry("callback", FALSE)>> ELSE <<>>))
               /\ UNCHANGED <<pin_modes, pin_types, pigpio_callbacks>>
            \/ /\ pigpio_pi
               /\ cb_active' = [(IF had THEN dropped ELSE cb_active) EXCEPT ![r.pin] = @ + 1]
               /\ task' = end("returned",
                      (IF had THEN <<entry("cancel", TRUE)>> ELSE <<>>)
                      \o <<entry("callback", TRUE)>>)
               /\ pigpio_callbacks' = DictSet(pigpio_callbacks, r.pin, "cb")
               /\ RecordAssignment(r.pin, r.mode, r.ptype)
               /\ UNCHANGED faults
    /\ UNCHANGED <<state, fixedVars, flagVars, devices, pin_values, event_loop,
                   reconnect_task, hw, sessions, orphans, next_dev, applied, nops>>
    /\ UNCHANGED sideVars

\* _set_pin_mode_gpiozero resumed after the old device's close
SpmCloseResume(t) ==
    /\ Resumable(t, "spm_close")
    /\ LET r == task[t] IN
       task' = IF r.call.st = "raised" THEN Return(t, "raised")
               ELSE [task EXCEPT ![t].pc = "spm_create",
                                 ![t].call = CreateCall(r.pin, r.mode, r.ptype)]
    /\ UNCHANGED <<boardVars, envVars, nops, faults>>
    /\ UNCHANGED sideVars

\* _set_pin_mode_gpiozero resumed with the new device
SpmCreateResume(t) ==
    /\ Resumable(t, "spm_create")
    /\ LET r == task[t] IN
       IF r.call.st = "raised"
       THEN task' = Return(t, "raised") /\ UNCHANGED <<devices, pin_modes, pin_types>>
       ELSE /\ devices' = DictSet(devices, r.pin, [kind |-> r.call.kind, id |-> r.call.dev])
            /\ RecordAssignment(r.pin, r.mode, r.ptype)
            /\ task' = Return(t, "returned")
    /\ UNCHANGED <<state, fixedVars, flagVars, pin_values, pigpio_callbacks, event_loop,
                   reconnect_task, envVars, nops, faults, port, auto_reconnect>>
    /\ UNCHANGED sideVars

\* -------------------------------------------------------- reads and writes
Max(a, b) == IF a > b THEN a ELSE b
Min(a, b) == IF a < b THEN a ELSE b

\* int(value) of a bool; _pin_values holds bools as 0 and 1 (True == 1)
BoolInt(b) == IF b THEN 1 ELSE 0

\* mutant: only the upper limit is applied
ClampDutyAbove(v) == Min(255, v)

\* write_analog: value = max(0, min(255, value))
ClampDuty(v) == Max(0, Min(255, v))
\* write_servo: angle = max(0, min(180, angle))
ClampAngle(a) == Max(0, Min(180, a))
\* write_servo (pigpio): 500 + int((angle / 180.0) * 2000)
PulseWidth(a) == 500 + ((a * 2000) \div 180)
\* write_servo (gpiozero): (angle / 90.0) - 1.0, in units of 1/90
ServoValue(a) == Max(-90, Min(90, a - 90))

\* the gpiozero classes that have on() and off()
HasOnOff(kind) == kind \in {"dout", "pwm"}

\* the gpiozero classes: every device has a value attribute
AnyKind == {"dout", "din", "pwm", "servo"}

\* a read or write, from its call to its await (or to its raise): pgCall is
\* the pigpio call, gzFn with gzVal the call on the gpiozero device, usable
\* the device classes that have the method, val the value mirrored in
\* _pin_values on success
IoStart(t, name, pin, val, pgCall, gzFn, gzVal, usable) ==
    /\ Begin(t)
    /\ LET run(c) == [Running(t, name, "io", c) EXCEPT !.pin = pin, !.val = val] IN
       task' = [task EXCEPT ![t] =
          IF NotConnected THEN Done(name, nops + 1, "NotConnected")
          ELSE IF pigpio_available /\ pigpio_pi THEN run(pgCall)
          ELSE IF ~DictHas(devices, pin) THEN Done(name, nops + 1, "NotConfigured")
          ELSE IF DictGet(devices, pin).kind \notin usable
          THEN Done(name, nops + 1, "raised")  \* AttributeError
          ELSE run(DevCall(gzFn, pin, gzVal, DictGet(devices, pin)))]
    /\ UNCHANGED <<boardVars, envVars, faults>>
    /\ UNCHANGED sideVars

WriteDigital(t, pin, value) ==
    IoStart(t, "write_digital", pin, BoolInt(value),
            Call("write", pin, BoolInt(value)),
            IF value THEN "on" ELSE "off", 0, {k \in AnyKind : HasOnOff(k)})

WriteAnalog(t, pin, value) ==
    IoStart(t, "write_analog", pin, ClampDuty(value),
            Call("set_PWM_dutycycle", pin, ClampDuty(value)),
            "set_value", ClampDuty(value), AnyKind)

WriteServo(t, pin, angle) ==
    IoStart(t, "write_servo", pin, ClampAngle(angle),
            Call("set_servo_pulsewidth", pin, PulseWidth(ClampAngle(angle))),
            "set_value", ServoValue(ClampAngle(angle)), AnyKind)

ReadDigital(t, pin) ==
    IoStart(t, "read_digital", pin, 0, Call("read", pin, 0), "get_value", 0, AnyKind)

\* mutant: the value is mirrored whether or not the backend call succeeded
IoResumeMirrorsAlways(t) ==
    /\ Resumable(t, "io")
    /\ LET r == task[t] IN
       /\ pin_values' = DictSet(pin_values, r.pin, r.val)
       /\ task' = Return(t, IF r.call.st = "raised" THEN "raised" ELSE "returned")
    /\ UNCHANGED <<state, fixedVars, flagVars, devices, pin_modes, pin_types,
                   pigpio_callbacks, event_loop, reconnect_task, envVars, nops, faults>>
    /\ UNCHANGED sideVars

\* a read or write resumed after its backend call
IoResume(t) ==
    /\ Resumable(t, "io")
    /\ LET r == task[t] IN
       IF r.call.st = "raised"
       THEN task' = Return(t, "raised") /\ UNCHANGED pin_values
       ELSE /\ pin_values' = DictSet(pin_values, r.pin,
                               IF r.name = "read_digital"
                               THEN (IF r.call.val # 0 THEN 1 ELSE 0) ELSE r.val)
            /\ task' = Return(t, "returned")
    /\ UNCHANGED <<state, fixedVars, flagVars, devices, pin_modes, pin_types,
                   pigpio_callbacks, event_loop, reconnect_task, envVars, nops, faults>>
    /\ UNCHANGED sideVars

\* mutant: read_analog starts with the check the other reads and writes make
ReadAnalogChecksState(t, pin) ==
    /\ Begin(t)
    /\ task' = [task EXCEPT ![t] =
          Done("read_analog", nops + 1,
               IF NotConnected THEN "NotConnected" ELSE "Unsupported")]
    /\ UNCHANGED <<boardVars, envVars, faults>>
    /\ UNCHANGED sideVars

\* read_analog(): NotImplementedError, whatever the state
ReadAnalog(t, pin) ==
    /\ Begin(t)
    /\ task' = [task EXCEPT ![t] = Done("read_analog", nops + 1, "Unsupported")]
    /\ UNCHANGED <<boardVars, envVars, faults>>
    /\ UNCHANGED sideVars

\* --------------------------------------------------------- emergency_stop
\* the call emergency_stop() makes for a pin (pigpio), if any
EsCall(pin) ==
    LET ty == IF DictHas(pin_types, pin) THEN DictGet(pin_types, pin) ELSE "None"
        md == IF DictHas(pin_modes, pin) THEN DictGet(pin_modes, pin) ELSE "None" IN
    IF ty = "PWM" THEN Call("set_PWM_dutycycle", pin, 0)
    ELSE IF ty = "SERVO" THEN Call("set_servo_pulsewidth", pin, 0)
    ELSE IF md = "OUTPUT" THEN Call("write", pin, 0)
    ELSE NoCall

\* the pins of keys from the first one that gets a call
RECURSIVE EsSkip(_)
EsSkip(keys) ==
    IF keys = <<>> THEN <<>>
    ELSE IF EsCall(Head(keys)).st = "none" THEN EsSkip(Tail(keys))
    ELSE keys

\* mutant: the first failing pin ends emergency_stop()
EsPigpioAbort(t, tk, keys) ==
    LET ks == IF pigpio_pi THEN EsSkip(keys) ELSE <<>>
        cs == tk[t].calls IN
    IF cs # <<>> /\ ~cs[Len(cs)].ok
    THEN [tk EXCEPT ![t] = Ended(tk[t], "raised")]
    ELSE IF ks = <<>>
    THEN [tk EXCEPT ![t] = Ended(tk[t], "returned")]
    ELSE [tk EXCEPT ![t].pc = "es_reset", ![t].call = EsCall(Head(ks)),
                    ![t].todo = Tail(ks)]

\* the pigpio branch of emergency_stop(), keys being the pins not visited yet
EsPigpio(t, tk, keys) ==
    LET ks == IF pigpio_pi THEN EsSkip(keys) ELSE <<>> IN
    IF ks = <<>>
    THEN [tk EXCEPT ![t] = Ended(tk[t], "returned")]
    ELSE [tk EXCEPT ![t].pc = "es_reset", ![t].call = EsCall(Head(ks)),
                    ![t].todo = Tail(ks)]

\* the call emergency_stop() makes on a gpiozero device
EsDevCall(pin, d) ==
    IF HasOnOff(d.kind) THEN DevCall("off", pin, 0, d)
    ELSE DevCall("set_value", pin, 0, d)

\* the gpiozero branch of emergency_stop(): the loop over
\* self._devices.items(), about to fetch item number i
EsLocal(t, tk, i) ==
    IF Len(devices) # tk[t].n0
    THEN \* RuntimeError: dictionary changed size during iteration
         [tk EXCEPT ![t] = Ended(tk[t], "raised")]
    ELSE IF i <= Len(devices)
    THEN [tk EXCEPT ![t].pc = "es_off", ![t].idx = i,
                    ![t].call = EsDevCall(devices[i].k, devices[i].v)]
    ELSE [tk EXCEPT ![t] = Ended(tk[t], "returned")]

\* emergency_stop(), from its call to the first await (or to its return)
EmergencyStop(t) ==
    /\ Begin(t)
    /\ LET tk == [task EXCEPT ![t] = [Idle EXCEPT !.name = "emergency_stop",
                                                  !.id = nops + 1,
                                                  !.n0 = Len(devices)]] IN
       task' = IF pigpio_available /\ pigpio_pi
               THEN EsPigpio(t, tk, DictKeys(pin_modes))
               ELSE EsLocal(t, tk, 1)
    /\ UNCHANGED <<boardVars, envVars, faults>>
    /\ UNCHANGED sideVars

\* emergency_stop() resumed after the call of one pin (pigpio)
EsResetResume(t) ==
    /\ Resumable(t, "es_reset")
    /\ task' = EsPigpio(t, [task EXCEPT ![t].call = NoCall], task[t].todo)
    /\ UNCHANGED <<boardVars, envVars, nops, faults>>
    /\ UNCHANGED sideVars

\* emergency_stop() resumed after the call of one device (gpiozero)
EsOffResume(t) ==
    /\ Resumable(t, "es_off")
    /\ task' = EsLocal(t, [task EXCEPT ![t].call = NoCall], task[t].idx + 1)
    /\ UNCHANGED <<boardVars, envVars, nops, faults>>
    /\ UNCHANGED sideVars

\* ---------------------------------------------------------------- backend
\* A worker thread executes the call of task t. The effect on the pin is
\* that of the pigpio daemon or of the gpiozero device class.

\* gpiozero Servo: pulse width (us) of a value given in units of 1/90
\* (min_pulse_width 1 ms, max_pulse_width 2 ms)
GzPulse(v90) == 1500 + ((500 * v90) \div 90)

\* what a new gpiozero device of a kind drives the pin with
GzInitial(kind, dev) ==
    IF kind = "dout" THEN [fn |-> "dout", val |-> 0, dev |-> dev]
    ELSE IF kind = "pwm" THEN [fn |-> "pwm", val |-> 0, dev |-> dev]
    ELSE IF kind = "servo" THEN [fn |-> "servo", val |-> GzPulse(0), dev |-> dev]
    ELSE [fn |-> "in", val |-> 0, dev |-> dev]

\* the call fails whatever the hardware does: the pin is in use, the device
\* is closed, or the attribute cannot be set
MustRaise(c) ==
    \/ c.fn = "create" /\ hw[c.pin].dev # 0
    \/ c.fn \in {"on", "off", "set_value", "get_value"} /\ hw[c.pin].dev # c.dev
    \/ c.fn = "set_value" /\ c.kind = "din"

\* the pin after the call c has been applied
HwAfter(c) ==
    LET h == hw[c.pin] IN
    IF c.fn = "set_mode"
    THEN IF c.val = 1
         THEN (IF h.fn \in {"dout", "pwm", "servo"} THEN h
               ELSE [fn |-> "dout", val |-> 0, dev |-> 0])
         ELSE [fn |-> "in", val |-> 0, dev |-> 0]
    ELSE IF c.fn = "write" THEN [fn |-> "dout", val |-> c.val, dev |-> 0]
    ELSE IF c.fn = "set_PWM_dutycycle" THEN [fn |-> "pwm", val |-> c.val, dev |-> 0]
    ELSE IF c.fn = "set_servo_pulsewidth" THEN [fn |-> "servo", val |-> c.val, dev |-> 0]
    ELSE IF c.fn = "create" THEN GzInitial(c.kind, next_dev)
    ELSE IF c.fn = "close" THEN (IF h.dev = c.dev THEN Floating ELSE h)
    ELSE IF c.fn = "on" THEN [h EXCEPT !.val = IF c.kind = "pwm" THEN 255 ELSE 1]
    ELSE IF c.fn = "off" THEN [h EXCEPT !.val = 0]
    ELSE IF c.fn = "set_value"
    THEN [h EXCEPT !.val = IF c.kind = "servo" THEN GzPulse(c.val)
                           ELSE IF c.kind = "dout" THEN (IF c.val # 0 THEN 1 ELSE 0)
                           ELSE c.val]
    ELSE h

\* the operations whose order on one pin the consumer relies on
Writes == {"write_digital", "write_analog", "write_servo"}

\* task t's record once its call has ended with status st and result val
Executed(t, st, val, dev) ==
    LET c == task[t].call IN
    [task EXCEPT ![t].call.st = st, ![t].call.val = val, ![t].call.dev = dev,
                 ![t].calls = Append(@, [fn |-> c.fn, pin |-> c.pin, val |-> c.val,
                                         ok |-> st = "ok"])]

\* the call of task t is applied and returns
BackendOk(t) ==
    /\ task[t].call.st = "pending"
    /\ ~MustRaise(task[t].call)
    /\ LET c == task[t].call IN
       /\ IF c.fn \in {"pi", "stop"}
          THEN /\ \E reached \in (IF c.fn = "pi" THEN BOOLEAN ELSE {TRUE}) :
                    /\ sessions' = IF c.fn = "stop" THEN Max(0, sessions - 1)
                                   ELSE IF reached THEN sessions + 1 ELSE sessions
                    /\ task' = Executed(t, "ok", BoolInt(reached), c.dev)
               /\ UNCHANGED <<hw, next_dev, applied>>
          ELSE /\ hw' = [hw EXCEPT ![c.pin] = HwAfter(c)]
               /\ next_dev' = IF c.fn = "create" THEN next_dev + 1 ELSE next_dev
               /\ \E level \in (IF c.fn \in {"read", "get_value"} THEN {0, 1} ELSE {c.val}) :
                    task' = Executed(t, "ok", level,
                                     IF c.fn = "create" THEN next_dev ELSE c.dev)
               /\ applied' = IF task[t].name \in Writes
                              THEN [applied EXCEPT ![c.pin] = task[t].id]
                              ELSE applied
               /\ UNCHANGED sessions
    /\ UNCHANGED <<boardVars, libs, orphans, cb_active, nops, faults>>
    /\ UNCHANGED sideVars

\* the call of task t raises
BackendRaise(t) ==
    /\ task[t].call.st = "pending"
    /\ MustRaise(task[t].call) \/ faults < MaxFaults
    /\ faults' = IF MustRaise(task[t].call) THEN faults ELSE faults + 1
    /\ task' = Executed(t, "raised", task[t].call.val, task[t].call.dev)
    /\ UNCHANGED <<boardVars, libs, hw, sessions, orphans, next_dev, cb_active,
                   applied, nops>>
    /\ UNCHANGED sideVars

\* the call of task t never returns
BackendHang(t) ==
    /\ task[t].call.st = "pending"
    /\ faults < MaxFaults
    /\ faults' = faults + 1
    /\ task' = Executed(t, "hung", task[t].call.val, task[t].call.dev)
    /\ UNCHANGED <<boardVars, libs, hw, sessions, orphans, next_dev, cb_active,
                   applied, nops>>
    /\ UNCHANGED sideVars

\* pigpio.pi of a cancelled connect() completes: nobody receives the session
OrphanRun ==
    /\ orphans > 0
    /\ orphans' = orphans - 1
    /\ \E reached \in BOOLEAN : sessions' = IF reached THEN sessions + 1 ELSE sessions
    /\ UNCHANGED <<boardVars, libs, hw, next_dev, cb_active, applied, task, nops, faults>>
    /\ UNCHANGED sideVars

\* ---------------------------------------------------------- specification
Resume(t) ==
    \/ ConnectResume(t)
    \/ DisconnectResetResume(t)
    \/ DisconnectStopResume(t)
    \/ DisconnectCloseResume(t)
    \/ SpmModeResume(t)
    \/ SpmPullResume(t)
    \/ SpmCloseResume(t)
    \/ SpmCreateResume(t)
    \/ IoResume(t)
    \/ EsResetResume(t)
    \/ EsOffResume(t)

Issue(t) ==
    \/ Connect(t)
    \/ ReconnectAttempt(t)
    \/ CancelConnect(t)
    \/ Disconnect(t)
    \/ \E pin \in PinIds, su \in PinSetups : SetPinMode(t, pin, su[1], su[2])
    \/ \E pin \in PinIds, v \in BOOLEAN : WriteDigital(t, pin, v)
    \/ \E pin \in PinIds, v \in AnalogInputs : WriteAnalog(t, pin, v)
    \/ \E pin \in PinIds, a \in ServoInputs : WriteServo(t, pin, a)
    \/ \E pin \in PinIds : ReadDigital(t, pin)
    \/ \E pin \in PinIds : ReadAnalog(t, pin)
    \/ EmergencyStop(t)

Backend(t) == BackendOk(t) \/ BackendRaise(t) \/ BackendHang(t)

\* the consumer runs any number of tasks at the same time
Next == (\E t \in Tasks : Issue(t) \/ Resume(t) \/ Backend(t)) \/ OrphanRun

Spec == Init /\ [][Next]_vars

\* the consumer awaits each operation before it issues the next one
NextSeq == Issue("A") \/ Resume("A") \/ Backend("A") \/ OrphanRun

SeqSpec == Init /\ [][NextSeq]_vars

\* the scheduler runs what can run: a submitted call is executed by a worker
\* thread, and a coroutine whose call has ended is resumed
FairSpec == SeqSpec /\ WF_vars(Resume("A")) /\ WF_vars(Backend("A"))

\* -------------------------------------------------------- input callbacks
\* transitions of input pins in one behaviour
MaxEvents == 3

\* changes of pin p are reported: a pigpio callback is subscribed at the
\* daemon, or the recorded gpiozero input device is live with on_change as
\* its when_activated / when_deactivated
Subscribed(p) ==
    \/ cb_active[p] > 0
    \/ /\ DictHas(devices, p)
       /\ DictGet(devices, p).kind = "din"
       /\ hw[p].dev = DictGet(devices, p).id

\* a physical transition of pin p: the backend's callback thread (pigpio's
\* notification thread, the gpiozero pin factory's) queues the edge
PinChange(p) ==
    /\ Len(edges) < MaxEvents
    /\ Subscribed(p)
    /\ pin_level' = [pin_level EXCEPT ![p] = 1 - @]
    /\ edges' = Append(edges, [pin |-> p, level |-> 1 - pin_level[p]])
    /\ thread' = Append(thread, [pin |-> p, level |-> 1 - pin_level[p],
                                 seq |-> Len(edges) + 1, dev |-> hw[p].dev])
    /\ UNCHANGED <<ready, delivered, boardVars, envVars, task, nops, faults>>
    /\ UNCHANGED extVars

\* mutant: the callback is put in front of the queue
CallSoonFirst(q, cb) == <<cb>> \o q

\* loop.call_soon_threadsafe(cb): cb goes to the end of the loop's queue
CallSoonThreadsafe(q, cb) == Append(q, cb)

\* BaseBoard._notify_callbacks(pin, value), run in the context ctx: every
\* registered observer is called with the pin and the value
NotifyCallbacks(cb, ctx) ==
    [pin |-> cb.pin, val |-> cb.val, seq |-> cb.seq, ctx |-> ctx]

\* the notifications ns, one after the other, at the end of queue q
RECURSIVE ScheduleAll(_, _)
ScheduleAll(q, ns) ==
    IF ns = <<>> THEN q ELSE ScheduleAll(CallSoonThreadsafe(q, Head(ns)), Tail(ns))

\* mutant: on_change calls the observers itself, on the backend thread
HandOverDirect(ns) ==
    /\ delivered' = delivered \o [i \in 1..Len(ns) |-> NotifyCallbacks(ns[i], "backend")]
    /\ UNCHANGED ready

\* the end of on_change: the notifications are handed to the event loop
HandOver(ns) ==
    /\ ready' = IF event_loop THEN ScheduleAll(ready, ns) ELSE ready
    /\ UNCHANGED delivered

\* the callback thread handles its next edge: on_change of every callback
\* subscribed to the pin runs on that thread. pigpio passes the level of the
\* edge; the gpiozero on_change reads device.value when it runs
OnChange ==
    /\ thread # <<>>
    /\ LET e == Head(thread)
           remote == e.dev = 0
           n == IF remote THEN cb_active[e.pin]
                ELSE IF DictHas(devices, e.pin) /\ DictGet(devices, e.pin).id = e.dev
                        /\ hw[e.pin].dev = e.dev
                THEN 1 ELSE 0
           val == IF remote THEN e.level ELSE pin_level[e.pin]
           ns == [i \in 1..n |-> [pin |-> e.pin, val |-> val, seq |-> e.seq]] IN
       /\ pin_values' = IF n > 0 THEN DictSet(pin_values, e.pin, val) ELSE pin_values
       /\ HandOver(ns)
    /\ thread' = Tail(thread)
    /\ UNCHANGED <<pin_level, edges, state, fixedVars, flagVars, devices, pin_modes,
                   pin_types, pigpio_callbacks, event_loop, reconnect_task, hw,
                   sessions, orphans, next_dev, cb_active, applied, task, nops, faults>>
    /\ UNCHANGED extVars

\* the event loop runs the next scheduled callback, between two steps of
\* the consumer's coroutines
LoopRun ==
    /\ ready # <<>>
    /\ delivered' = Append(delivered, NotifyCallbacks(Head(ready), "loop"))
    /\ ready' = Tail(ready)
    /\ UNCHANGED <<pin_level, edges, thread, boardVars, envVars, task, nops, faults>>
    /\ UNCHANGED extVars

\* the consumer connects, configures input pins and reads them, while the
\* pins change
NextCb ==
    \/ Connect("A")
    \/ \E pin \in PinIds : SetPinMode("A", pin, "INPUT", "DIGITAL")
    \/ \E pin \in PinIds : ReadDigital("A", pin)
    \/ ConnectResume("A")
    \/ SpmModeResume("A")
    \/ SpmPullResume("A")
    \/ SpmCloseResume("A")
    \/ SpmCreateResume("A")
    \/ IoResume("A")
    \/ Backend("A")
    \/ \E p \in PinIds : PinChange(p)
    \/ OnChange
    \/ LoopRun

CbSpec == Init /\ [][NextCb]_vars

\* ---------------------------------------------------- numeric conversions
\* the integers the consumer passes to write_analog and to write_servo:
\* below, at, inside and above the range
DutyInputs == {-1, 0, 1, 128, 254, 255, 256}
AngleInputs == {-1, 0, 1, 90, 179, 180, 181}

\* the consumer connects, configures PWM and servo pins and writes to them
NextNum ==
    \/ Connect("A")
    \/ \E pin \in PinIds, ty \in {"PWM", "SERVO"} : SetPinMode("A", pin, "OUTPUT", ty)
    \/ \E pin \in PinIds, v \in DutyInputs : WriteAnalog("A", pin, v)
    \/ \E pin \in PinIds, a \in AngleInputs : WriteServo("A", pin, a)
    \/ ConnectResume("A")
    \/ SpmModeResume("A")
    \/ SpmCloseResume("A")
    \/ SpmCreateResume("A")
    \/ IoResume("A")
    \/ Backend("A")

NumSpec == Init /\ [][NextNum]_vars

\* ------------------------------------------------ persisted configuration
\* the ids boards are constructed with, and the ids a dict may carry
BoardIds == {"id-1", "id-2"}
\* instances from_dict constructs in one behaviour
MaxCopies == 2

\* BaseBoard.__init__ gives every new instance an id of its own
FreshId(n) == IF n = 1 THEN "new-1" ELSE "new-2"

\* PiGPIOBoard.name and PiGPIOBoard.board_type (the same for every instance)
Name == "Raspberry Pi GPIO"
BoardType == "pigpio"

\* dict.get(key, default)
Get(d, k, default) == IF k \in DOMAIN d THEN d[k] ELSE default

\* to_dict(): port is None ("local") or the host name ("remote")
ToDict ==
    [id |-> board_id, name |-> Name, port |-> port,
     auto_reconnect |-> auto_reconnect, board_type |-> "raspberry_pi"]

\* mutant: the id of the input is not taken over
FromDictNewId(data, fresh) ==
    [id |-> fresh,
     port |-> Get(data, "port", "local"),
     auto_reconnect |-> Get(data, "auto_reconnect", TRUE),
     board_type |-> BoardType]

\* from_dict(data): the instance cls(port, auto_reconnect) constructs, whose
\* generated id is fresh, with the id of data when data has one
FromDict(data, fresh) ==
    [id |-> Get(data, "id", fresh),
     port |-> Get(data, "port", "local"),
     auto_reconnect |-> Get(data, "auto_reconnect", TRUE),
     board_type |-> BoardType]

\* boards constructed with either port, either auto_reconnect and any id
CfgInit ==
    /\ BoardInit
    /\ auto_reconnect \in BOOLEAN
    /\ board_id \in BoardIds
    /\ CfgIdle
    /\ FwInit(1)
    /\ ArInit(TRUE)

\* the consumer serialises the board
CfgToDict ==
    /\ cfg_data' = ToDict
    /\ UNCHANGED <<board_id, cfg_copy, cfg_made, hostVars, fwVars, arVars>>

\* the consumer's dict lacks a key (a hand-written or older configuration)
CfgDropKey(k) ==
    /\ k \in DOMAIN cfg_data
    /\ cfg_data' = [x \in DOMAIN cfg_data \ {k} |-> cfg_data[x]]
    /\ UNCHANGED <<board_id, cfg_copy, cfg_made, hostVars, fwVars, arVars>>

\* the consumer's dict carries another id
CfgSetId(i) ==
    /\ cfg_data' = [x \in DOMAIN cfg_data \cup {"id"} |->
                      IF x = "id" THEN i ELSE cfg_data[x]]
    /\ cfg_data' # cfg_data
    /\ UNCHANGED <<board_id, cfg_copy, cfg_made, hostVars, fwVars, arVars>>

\* the consumer reconstructs a board from its dict
CfgFromDict ==
    /\ cfg_made < MaxCopies
    /\ cfg_made' = cfg_made + 1
    /\ cfg_copy' = [made |-> TRUE, input |-> cfg_data, fresh |-> FreshId(cfg_made'),
                    board |-> FromDict(cfg_data, FreshId(cfg_made'))]
    /\ UNCHANGED <<board_id, cfg_data, hostVars, fwVars, arVars>>

NextCfg ==
    \/ CfgToDict
    \/ \E k \in {"id", "port", "auto_reconnect"} : CfgDropKey(k)
    \/ \E i \in BoardIds : CfgSetId(i)
    \/ CfgFromDict

CfgSpec == CfgInit /\ [][NextCfg]_vars

\* ------------------------------------------------------ FrameWriterThread
\* frames the producer offers in one behaviour
MaxFrames == 3
\* the largest max_queue_size
MaxQueue == 2
\* writer threads created in one behaviour
MaxThreads == 2
\* calls of start() and stop() in one behaviour
MaxCalls == 4
\* calls of writer.write that raise in one behaviour
MaxWriteFaults == 1

\* threading.Thread.is_alive(): the thread has been started and _run has
\* not returned
IsAlive(tid) == tid # 0 /\ fw_threads[tid].pc # "done"

LiveThreads == {tid \in 1..Len(fw_threads) : IsAlive(tid)}

\* the calls of writer.write that raised
WriteFaults == {i \in 1..Len(fw_calls) : ~fw_calls[i].ok}

\* the controlling thread returns from op with res
UserReturns(op, res) == [pc |-> "idle", op |-> op, res |-> res, n |-> fw_user.n + 1]

\* mutant: start() launches a thread whether or not one is alive
FwStartAlways ==
    /\ fw_user.pc = "idle" /\ fw_user.n < MaxCalls
    /\ Len(fw_threads) < MaxThreads
    /\ fw_stop' = FALSE
    /\ fw_threads' = Append(fw_threads, [pc |-> "get", frame |-> 0])
    /\ fw_thread' = Len(fw_threads) + 1
    /\ fw_user' = UserReturns("start", "started")
    /\ UNCHANGED <<fw_max, fw_queue, fw_written, fw_dropped, fw_calls, fw_accepted,
                   fw_attempts, fw_mark, hostVars, cfgVars, arVars>>

\* start(): nothing when the thread is alive; otherwise the event is
\* cleared and a new thread runs _run
FwStart ==
    /\ fw_user.pc = "idle" /\ fw_user.n < MaxCalls
    /\ IF IsAlive(fw_thread)
       THEN /\ fw_user' = UserReturns("start", "alive")
            /\ UNCHANGED <<fw_stop, fw_threads, fw_thread>>
       ELSE /\ Len(fw_threads) < MaxThreads
            /\ fw_stop' = FALSE
            /\ fw_threads' = Append(fw_threads, [pc |-> "get", frame |-> 0])
            /\ fw_thread' = Len(fw_threads) + 1
            /\ fw_user' = UserReturns("start", "started")
    /\ UNCHANGED <<fw_max, fw_queue, fw_written, fw_dropped, fw_calls, fw_accepted,
                   fw_attempts, fw_mark, hostVars, cfgVars, arVars>>

\* mutant: the frame is queued whatever the depth of the queue
FwEnqueueUnbounded ==
    /\ fw_attempts < MaxFrames
    /\ fw_attempts' = fw_attempts + 1
    /\ fw_queue' = Append(fw_queue, fw_attempts')
    /\ fw_accepted' = fw_accepted \cup {fw_attempts'}
    /\ UNCHANGED <<fw_max, fw_stop, fw_thread, fw_threads, fw_written, fw_dropped,
                   fw_user, fw_calls, fw_mark, hostVars, cfgVars, arVars>>

\* enqueue(frame) by the producer (the capture thread): put_nowait queues
\* the frame or raises queue.Full, and then the frame is counted as dropped
FwEnqueue ==
    /\ fw_attempts < MaxFrames
    /\ fw_attempts' = fw_attempts + 1
    /\ IF Len(fw_queue) < fw_max
       THEN /\ fw_queue' = Append(fw_queue, fw_attempts')
            /\ fw_accepted' = fw_accepted \cup {fw_attempts'}
            /\ UNCHANGED fw_dropped
       ELSE /\ fw_dropped' = fw_dropped + 1
            /\ UNCHANGED <<fw_queue, fw_accepted>>
    /\ UNCHANGED <<fw_max, fw_stop, fw_thread, fw_threads, fw_written, fw_user,
                   fw_calls, fw_mark, hostVars, cfgVars, arVars>>

\* stop(): the event is set; with a thread, the caller joins it
FwStop ==
    /\ fw_user.pc = "idle" /\ fw_user.n < MaxCalls
    /\ fw_stop' = TRUE
    /\ fw_mark' = fw_attempts
    /\ fw_user' = IF fw_thread = 0 THEN UserReturns("stop", "no thread")
                  ELSE [pc |-> "join", op |-> "stop",
                        res |-> IF IsAlive(fw_thread) THEN "alive" ELSE "ended",
                        n |-> fw_user.n]
    /\ UNCHANGED <<fw_max, fw_queue, fw_thread, fw_threads, fw_written, fw_dropped,
                   fw_calls, fw_accepted, fw_attempts, hostVars, cfgVars, arVars>>

\* join() returns because the thread has ended: "joined" when stop() found
\* it running, "ended" when it had ended before
FwJoined ==
    /\ fw_user.pc = "join"
    /\ ~IsAlive(fw_thread)
    /\ fw_user' = UserReturns("stop", IF fw_user.res = "alive" THEN "joined" ELSE "ended")
    /\ UNCHANGED <<fw_max, fw_queue, fw_stop, fw_thread, fw_threads, fw_written,
                   fw_dropped, fw_calls, fw_accepted, fw_attempts, fw_mark,
                   hostVars, cfgVars, arVars>>

\* join() returns because the timeout has passed
FwJoinTimeout ==
    /\ fw_user.pc = "join"
    /\ IsAlive(fw_thread)
    /\ fw_user' = UserReturns("stop", "timeout")
    /\ UNCHANGED <<fw_max, fw_queue, fw_stop, fw_thread, fw_threads, fw_written,
                   fw_dropped, fw_calls, fw_accepted, fw_attempts, fw_mark,
                   hostVars, cfgVars, arVars>>

\* _run, self._queue.get(timeout=0.1): the next frame, or queue.Empty when
\* the queue has stayed empty for the timeout
FwGet(tid) ==
    /\ fw_threads[tid].pc = "get"
    /\ IF fw_queue # <<>>
       THEN /\ fw_threads' = [fw_threads EXCEPT ![tid] = [pc |-> "write", frame |-> Head(fw_queue)]]
            /\ fw_queue' = Tail(fw_queue)
       ELSE /\ fw_threads' = [fw_threads EXCEPT ![tid].pc = "empty"]
            /\ UNCHANGED fw_queue
    /\ UNCHANGED <<fw_max, fw_stop, fw_thread, fw_written, fw_dropped, fw_user,
                   fw_calls, fw_accepted, fw_attempts, fw_mark, hostVars, cfgVars, arVars>>

\* _run, except queue.Empty: break when the event is set, else continue
FwEmpty(tid) ==
    /\ fw_threads[tid].pc = "empty"
    /\ fw_threads' = [fw_threads EXCEPT ![tid].pc = IF fw_stop THEN "done" ELSE "get"]
    /\ UNCHANGED <<fw_max, fw_queue, fw_stop, fw_thread, fw_written, fw_dropped,
                   fw_user, fw_calls, fw_accepted, fw_attempts, fw_mark, hostVars, cfgVars, arVars>>

\* _run, self._writer.write(frame) returns
FwWriteOk(tid) ==
    /\ fw_threads[tid].pc = "write"
    /\ fw_calls' = Append(fw_calls, [frame |-> fw_threads[tid].frame, ok |-> TRUE])
    /\ fw_threads' = [fw_threads EXCEPT ![tid].pc = "count"]
    /\ UNCHANGED <<fw_max, fw_queue, fw_stop, fw_thread, fw_written, fw_dropped,
                   fw_user, fw_accepted, fw_attempts, fw_mark, hostVars, cfgVars, arVars>>

\* mutant: an exception of writer.write ends _run
FwWriteRaiseEnds(tid) ==
    /\ fw_threads[tid].pc = "write"
    /\ Cardinality(WriteFaults) < MaxWriteFaults
    /\ fw_calls' = Append(fw_calls, [frame |-> fw_threads[tid].frame, ok |-> FALSE])
    /\ fw_threads' = [fw_threads EXCEPT ![tid] = [pc |-> "done", frame |-> 0]]
    /\ UNCHANGED <<fw_max, fw_queue, fw_stop, fw_thread, fw_written, fw_dropped,
                   fw_user, fw_accepted, fw_attempts, fw_mark, hostVars, cfgVars, arVars>>

\* _run, self._writer.write(frame) raises: logged, and the loop goes on
FwWriteRaise(tid) ==
    /\ fw_threads[tid].pc = "write"
    /\ Cardinality(WriteFaults) < MaxWriteFaults
    /\ fw_calls' = Append(fw_calls, [frame |-> fw_threads[tid].frame, ok |-> FALSE])
    /\ fw_threads' = [fw_threads EXCEPT ![tid] = [pc |-> "get", frame |-> 0]]
    /\ UNCHANGED <<fw_max, fw_queue, fw_stop, fw_thread, fw_written, fw_dropped,
                   fw_user, fw_accepted, fw_attempts, fw_mark, hostVars, cfgVars, arVars>>

\* _run, with self._lock: self._frames_written += 1
FwCount(tid) ==
    /\ fw_threads[tid].pc = "count"
    /\ fw_written' = fw_written + 1
    /\ fw_threads' = [fw_threads EXCEPT ![tid] = [pc |-> "get", frame |-> 0]]
    /\ UNCHANGED <<fw_max, fw_queue, fw_stop, fw_thread, fw_dropped, fw_user,
                   fw_calls, fw_accepted, fw_attempts, fw_mark, hostVars, cfgVars, arVars>>

\* the producer, the controlling thread and the writer threads, interleaved
NextFw ==
    \/ FwStart
    \/ FwEnqueue
    \/ FwStop
    \/ FwJoined
    \/ FwJoinTimeout
    \/ \E tid \in 1..Len(fw_threads) : FwGet(tid)
    \/ \E tid \in 1..Len(fw_threads) : FwEmpty(tid)
    \/ \E tid \in 1..Len(fw_threads) : FwWriteOk(tid)
    \/ \E tid \in 1..Len(fw_threads) : FwWriteRaise(tid)
    \/ \E tid \in 1..Len(fw_threads) : FwCount(tid)

\* a step of writer thread tid
FwRun(tid) ==
    /\ tid <= Len(fw_threads)
    /\ FwGet(tid) \/ FwEmpty(tid) \/ FwWriteOk(tid) \/ FwWriteRaise(tid) \/ FwCount(tid)

\* one board, constructed and left alone
BoardUnused ==
    /\ BoardInit
    /\ port = "local"
    /\ libs = [pigpio |-> FALSE, gpiozero |-> TRUE, lgpio |-> FALSE]
    /\ auto_reconnect = TRUE
    /\ board_id = "id-1"
    /\ CfgIdle

\* a frame writer of any queue size
FwSpecInit ==
    /\ BoardUnused
    /\ ArInit(TRUE)
    /\ \E n \in 1..MaxQueue : FwInit(n)

FwSpec == FwSpecInit /\ [][NextFw]_vars

\* the operating system schedules a writer thread that can take a step
FwFairSpec == FwSpec /\ \A tid \in 1..MaxThreads : WF_vars(FwRun(tid))

\* ---------------------------------------------------------- AudioRecorder
\* calls of start(), stop(), pause() and resume() in one behaviour
MaxAudioCalls == 5
\* audio blocks the streams deliver in one behaviour
MaxBlocks == 3
\* calls of sounddevice and wave that raise in one behaviour
MaxAudioFaults == 1

\* what the recorder's coroutines and its callback never touch
arRest == <<hostVars, cfgVars, fwVars>>

\* the result of a coroutine that raised (a path is a number above 0, None is 0)
Raised == -1

\* the event loop thread returns (or raises) from op
MainReturns(op, res) == [pc |-> "idle", op |-> op, res |-> res, n |-> ar_main.n + 1]
\* ... and is inside op, at pc
MainAt(op, pc) == [pc |-> pc, op |-> op, res |-> 0, n |-> ar_main.n]

\* a coroutine of the recorder is called: none of them awaits, so none
\* runs while another one does
MainCalls == ar_main.pc = "idle" /\ ar_main.n < MaxAudioCalls

\* an attribute that held old is bound to another object: when old was an
\* object, its finalizer runs at once (reference counting), and closes it,
\* or it does not run. The result is the set of objects closed
Finalized(old) == IF old = 0 THEN {{}} ELSE {{}, {old}}

\* start(), up to the opening of the WAV file. Files are numbered in the
\* order of their creation, and a path is the number of its file
ArStart ==
    /\ MainCalls
    /\ IF ~ar_available
       THEN /\ ar_main' = MainReturns("start", Raised)
            /\ UNCHANGED <<ar_file_path, ar_sample_count, ar_wav, ar_frames, ar_open>>
       ELSE IF ar_state = "RECORDING"
       THEN /\ ar_main' = MainReturns("start", ar_file_path)
            /\ UNCHANGED <<ar_file_path, ar_sample_count, ar_wav, ar_frames, ar_open>>
       ELSE /\ ar_file_path' = Len(ar_frames) + 1
            /\ ar_sample_count' = 0
            /\ ar_wav' = Len(ar_frames) + 1
            /\ ar_frames' = Append(ar_frames, 0)
            /\ \E gone \in Finalized(ar_wav) :
                  ar_open' = (ar_open \ gone) \cup {Len(ar_frames) + 1}
            /\ ar_main' = MainAt("start", "start_stream")
    /\ UNCHANGED <<ar_available, ar_state, ar_stream, ar_cb, ar_active, ar_streams,
                   ar_blocks, ar_faults, arRest>>

\* start(): sd.InputStream(...) and stream.start(); when either raises the
\* WAV file is closed and RuntimeError raised
ArStartStream ==
    /\ ar_main.pc = "start_stream"
    /\ \/ /\ ar_streams' = ar_streams + 1
          /\ ar_stream' = ar_streams'
          /\ \E gone \in Finalized(ar_stream) :
                ar_active' = (ar_active \ gone) \cup {ar_streams'}
          /\ ar_main' = MainAt("start", "start_finish")
          /\ UNCHANGED <<ar_wav, ar_open, ar_faults>>
       \/ /\ ar_faults < MaxAudioFaults
          /\ ar_faults' = ar_faults + 1
          /\ \/ UNCHANGED <<ar_stream, ar_streams, ar_active>>  \* the constructor raised
             \/ /\ ar_streams' = ar_streams + 1         \* stream.start() raised
                /\ ar_stream' = ar_streams'
                /\ \E gone \in Finalized(ar_stream) : ar_active' = ar_active \ gone
          /\ ar_wav' = 0
          /\ ar_open' = ar_open \ {ar_wav}
          /\ ar_main' = MainReturns("start", Raised)
    /\ UNCHANGED <<ar_available, ar_state, ar_file_path, ar_sample_count, ar_cb,
                   ar_frames, ar_blocks, arRest>>

\* start(): the state becomes RECORDING and the path is returned
ArStartFinish ==
    /\ ar_main.pc = "start_finish"
    /\ ar_state' = "RECORDING"
    /\ ar_main' = MainReturns("start", ar_file_path)
    /\ UNCHANGED ar_open
    /\ UNCHANGED <<ar_available, ar_stream, ar_wav, ar_file_path, ar_sample_count,
                   ar_cb, ar_active, ar_streams, ar_frames, ar_blocks, ar_faults, arRest>>

\* stop(), up to the state FINALIZING
ArStop ==
    /\ MainCalls
    /\ IF ar_state \notin {"RECORDING", "PAUSED"}
       THEN /\ ar_main' = MainReturns("stop", 0)
            /\ UNCHANGED ar_state
       ELSE /\ ar_state' = "FINALIZING"
            /\ ar_main' = MainAt("stop", "stop_stream")
    /\ UNCHANGED ar_open
    /\ UNCHANGED <<ar_available, ar_stream, ar_wav, ar_file_path, ar_sample_count,
                   ar_cb, ar_active, ar_streams, ar_frames, ar_blocks, ar_faults, arRest>>

\* mutant: an exception of stream.stop() leaves stop()
ArStopStreamPropagates ==
    /\ ar_main.pc = "stop_stream"
    /\ ar_stream # 0
    /\ ar_faults < MaxAudioFaults
    /\ ar_faults' = ar_faults + 1
    /\ ar_main' = MainReturns("stop", Raised)
    /\ UNCHANGED ar_open
    /\ UNCHANGED <<ar_available, ar_state, ar_stream, ar_wav, ar_file_path,
                   ar_sample_count, ar_cb, ar_active, ar_streams, ar_frames,
                   ar_blocks, arRest>>

\* stop(): stream.stop() and stream.close(), an exception logged;
\* stream.stop() returns when no callback of the stream is running
ArStopStream ==
    /\ ar_main.pc = "stop_stream"
    /\ IF ar_stream = 0
       THEN UNCHANGED <<ar_stream, ar_active, ar_faults>>
       ELSE /\ ar_stream' = 0
            /\ \/ /\ ~(ar_cb.pc = "checked" /\ ar_cb.stream = ar_stream)
                  /\ ar_active' = ar_active \ {ar_stream}
                  /\ UNCHANGED ar_faults
               \/ /\ ar_faults < MaxAudioFaults
                  /\ ar_faults' = ar_faults + 1
                  /\ UNCHANGED ar_active
    /\ ar_main' = MainAt("stop", "stop_wav")
    /\ UNCHANGED ar_open
    /\ UNCHANGED <<ar_available, ar_state, ar_wav, ar_file_path, ar_sample_count,
                   ar_cb, ar_streams, ar_frames, ar_blocks, arRest>>

\* mutant: stop() closes the WAV file and keeps the reference to it
ArStopWavKeepsHandle ==
    /\ ar_main.pc = "stop_wav"
    /\ UNCHANGED ar_wav
    /\ ar_open' = ar_open \ {ar_wav}
    /\ \/ UNCHANGED ar_faults
       \/ /\ ar_wav # 0
          /\ ar_faults < MaxAudioFaults
          /\ ar_faults' = ar_faults + 1
    /\ ar_main' = MainAt("stop", "stop_finish")
    /\ UNCHANGED <<ar_available, ar_state, ar_stream, ar_file_path, ar_sample_count,
                   ar_cb, ar_active, ar_streams, ar_frames, ar_blocks, arRest>>

\* stop(), with self._lock: the WAV file is closed, an exception logged
\* (Wave_write.close releases the file in a finally clause, also when it
\* raises)
ArStopWav ==
    /\ ar_main.pc = "stop_wav"
    /\ ar_wav' = 0
    /\ ar_open' = ar_open \ {ar_wav}
    /\ \/ UNCHANGED ar_faults
       \/ /\ ar_wav # 0
          /\ ar_faults < MaxAudioFaults
          /\ ar_faults' = ar_faults + 1
    /\ ar_main' = MainAt("stop", "stop_finish")
    /\ UNCHANGED <<ar_available, ar_state, ar_stream, ar_file_path, ar_sample_count,
                   ar_cb, ar_active, ar_streams, ar_frames, ar_blocks, arRest>>

\* stop(): the state becomes IDLE and the path is returned
ArStopFinish ==
    /\ ar_main.pc = "stop_finish"
    /\ ar_state' = "IDLE"
    /\ ar_main' = MainReturns("stop", ar_file_path)
    /\ UNCHANGED ar_open
    /\ UNCHANGED <<ar_available, ar_stream, ar_wav, ar_file_path, ar_sample_count,
                   ar_cb, ar_active, ar_streams, ar_frames, ar_blocks, ar_faults, arRest>>

\* pause()
ArPause ==
    /\ MainCalls
    /\ ar_state' = IF ar_state = "RECORDING" THEN "PAUSED" ELSE ar_state
    /\ ar_main' = MainReturns("pause", 0)
    /\ UNCHANGED ar_open
    /\ UNCHANGED <<ar_available, ar_stream, ar_wav, ar_file_path, ar_sample_count,
                   ar_cb, ar_active, ar_streams, ar_frames, ar_blocks, ar_faults, arRest>>

\* resume()
ArResume ==
    /\ MainCalls
    /\ ar_state' = IF ar_state = "PAUSED" THEN "RECORDING" ELSE ar_state
    /\ ar_main' = MainReturns("resume", 0)
    /\ UNCHANGED ar_open
    /\ UNCHANGED <<ar_available, ar_stream, ar_wav, ar_file_path, ar_sample_count,
                   ar_cb, ar_active, ar_streams, ar_frames, ar_blocks, ar_faults, arRest>>

\* _audio_callback called by the audio thread with a block of an active
\* stream: it returns unless the state is RECORDING
ArCallback(sid) ==
    /\ ar_cb.pc = "idle"
    /\ sid \in ar_active
    /\ ar_blocks < MaxBlocks
    /\ ar_blocks' = ar_blocks + 1
    /\ ar_cb' = IF ar_state # "RECORDING" THEN CbIdle ELSE [pc |-> "checked", stream |-> sid]
    /\ UNCHANGED ar_open
    /\ UNCHANGED <<ar_available, ar_state, ar_stream, ar_wav, ar_file_path,
                   ar_sample_count, ar_main, ar_active, ar_streams, ar_frames,
                   ar_faults, arRest>>

\* _audio_callback, with self._lock: the block is written to the WAV file
\* and counted, unless there is no file
ArCallbackWrite ==
    /\ ar_cb.pc = "checked"
    /\ ar_cb' = CbIdle
    /\ IF ar_wav = 0
       THEN UNCHANGED <<ar_frames, ar_sample_count>>
       ELSE /\ ar_frames' = [ar_frames EXCEPT ![ar_wav] = @ + 1]
            /\ ar_sample_count' = ar_sample_count + 1
    /\ UNCHANGED ar_open
    /\ UNCHANGED <<ar_available, ar_state, ar_stream, ar_wav, ar_file_path, ar_main,
                   ar_active, ar_streams, ar_blocks, ar_faults, arRest>>

\* the event loop thread and the audio thread, interleaved
NextAr ==
    \/ ArStart
    \/ ArStartStream
    \/ ArStartFinish
    \/ ArStop
    \/ ArStopStream
    \/ ArStopWav
    \/ ArStopFinish
    \/ ArPause
    \/ ArResume
    \/ \E sid \in 1..ar_streams : ArCallback(sid)
    \/ ArCallbackWrite

\* a recorder with or without sounddevice
ArSpecInit ==
    /\ BoardUnused
    /\ FwInit(1)
    /\ \E avail \in BOOLEAN : ArInit(avail)

ArSpec == ArSpecInit /\ [][NextAr]_vars

\* ------------------------------------------------------------------ claims
\* the step ends an operation of task t, called name, with the result res
Ends(t, name, res) ==
    /\ task'[t].pc = "idle"
    /\ task'[t].name = name
    /\ task'[t].res = res
    /\ task[t].pc # "idle" \/ task'[t].id # task[t].id

\* the step is the call of an operation by task t
Begins(t) ==
    /\ task[t].pc = "idle"
    /\ nops' = nops + 1
    /\ task'[t].id = nops'

\* task t's last operation was name, and it has ended
Ended_(t, name) == task[t].pc = "idle" /\ task[t].name = name

Failed(cs) == \E i \in 1..Len(cs) : ~cs[i].ok

\* C1: when disconnect() returns the state is DISCONNECTED, whatever the
\* state was and whichever cleanup calls raised.
C1_DisconnectEndsDisconnected ==
    [][\A t \in Tasks :
         Ends(t, "disconnect", "returned") => state' = "DISCONNECTED"]_vars

\* a disconnect() has returned although one of its cleanup calls raised
C1_Witness ==
    \E t \in Tasks :
        /\ Ended_(t, "disconnect") /\ task[t].res = "returned"
        /\ Failed(task[t].calls)
        /\ state = "DISCONNECTED"

\* the pin is assigned as an output: PWM, servo or digital OUTPUT
OutputAssigned(p) ==
    /\ DictHas(pin_modes, p)
    /\ \/ DictGet(pin_types, p) \in {"PWM", "SERVO"}
       \/ DictGet(pin_modes, p) = "OUTPUT"

\* C2: emergency_stop() returns normally and has made a reset call for every
\* output-assigned pin, also for the pins after one whose reset raised.
C2_EStopAttemptsEveryPin ==
    Ended_("A", "emergency_stop") =>
        /\ task["A"].res = "returned"
        /\ \A p \in PinIds :
              OutputAssigned(p) =>
                 \E i \in 1..Len(task["A"].calls) : task["A"].calls[i].pin = p

\* an emergency_stop() has ended whose call for one pin raised and was
\* followed by the call for another pin
C2_Witness ==
    /\ Ended_("A", "emergency_stop")
    /\ \E i, j \in 1..Len(task["A"].calls) :
          /\ i < j
          /\ ~task["A"].calls[i].ok
          /\ task["A"].calls[j].pin # task["A"].calls[i].pin

\* C3: after emergency_stop() every output-assigned pin whose reset call
\* went through is at its safe value on the backend: duty cycle 0, pulse
\* width 0, level low.
C3_EStopDrivesSafe ==
    Ended_("A", "emergency_stop") =>
        \A p \in PinIds :
           (/\ OutputAssigned(p)
            /\ \E i \in 1..Len(task["A"].calls) :
                  task["A"].calls[i].pin = p /\ task["A"].calls[i].ok)
           => hw[p].val = 0

\* C4: an emergency_stop() in flight eventually returns.
C4_EStopTerminates ==
    (task["A"].name = "emergency_stop" /\ task["A"].pc # "idle")
        ~> (task["A"].pc = "idle")

\* the operations that need a connected board
Guarded == {"set_pin_mode", "write_digital", "write_analog", "write_servo",
            "read_digital"}

\* C5: a read, write or set_pin_mode called while the state is not CONNECTED
\* fails with the not-connected error, makes no backend call and leaves the
\* pin bookkeeping as it was.
C5_NothingServicedUnlessConnected ==
    [][\A t \in Tasks :
         (Begins(t) /\ task'[t].name \in Guarded /\ state # "CONNECTED") =>
            /\ task'[t].pc = "idle"
            /\ task'[t].res = "NotConnected"
            /\ task'[t].call = NoCall
            /\ task'[t].calls = <<>>
            /\ UNCHANGED <<devices, pin_modes, pin_types, pin_values, hw>>]_vars

\* a write was refused while a connect() was still in progress
C5_Witness ==
    /\ state = "CONNECTING"
    /\ \E t \in Tasks : Ended_(t, "write_digital") /\ task[t].res = "NotConnected"

\* C6: whenever connect() returns True the state is CONNECTED.
C6_ConnectTrueIsConnected ==
    [][\A t \in Tasks : Ends(t, "connect", "True") => state' = "CONNECTED"]_vars

\* a connect() to the pigpio daemon has returned True
C6_Witness ==
    \E t \in Tasks :
        /\ Ended_(t, "connect") /\ task[t].res = "True"
        /\ pigpio_pi /\ state = "CONNECTED"

\* the step ends task t's connect() on one of its failure paths: pigpio
\* missing, daemon unreachable, no local library, or an exception
ConnectFailure(t) ==
    \/ task[t].pc = "idle" /\ port = "remote" /\ ~libs.pigpio
    \/ task[t].pc = "idle" /\ port = "local" /\ ~libs.gpiozero /\ ~libs.lgpio
    \/ /\ task[t].pc = "connect_pi"
       /\ \/ task[t].call.st = "raised"
          \/ task[t].call.st = "ok" /\ task[t].call.val = 0

\* C7: every failing connect() returns False with the state ERROR.
C7_ConnectFailureIsError ==
    [][\A t \in Tasks : \A r \in {"True", "False"} :
         Ends(t, "connect", r) =>
            /\ ConnectFailure(t) => r = "False"
            /\ r = "False" => state' = "ERROR"]_vars

\* a connect() has returned False because pigpio.pi raised
C7_Witness ==
    \E t \in Tasks :
        /\ Ended_(t, "connect") /\ task[t].res = "False"
        /\ Failed(task[t].calls)
        /\ state = "ERROR"

\* the backend calls that drive a pin, and those that release the channel
ResetFns == {"write", "set_PWM_dutycycle", "set_servo_pulsewidth", "off", "set_value"}
ReleaseFns == {"stop", "close"}

\* C8: when disconnect() returns it has made, for every configured pin, a
\* call that drives the pin to its safe value, and made it before any call
\* that releases the channel.
C8_DisconnectResetsBeforeRelease ==
    [][Ends("A", "disconnect", "returned") =>
         LET cs == task'["A"].calls IN
         \A i \in 1..Len(pin_modes) :
            \E j \in 1..Len(cs) :
               /\ cs[j].pin = pin_modes[i].k
               /\ cs[j].fn \in ResetFns
               /\ cs[j].val = 0
               /\ \A k \in 1..Len(cs) : cs[k].fn \in ReleaseFns => j < k]_vars

\* C9: with connect() and disconnect() the only calls, disconnect() called
\* second, and no backend fault, once both have ended the state is
\* DISCONNECTED and no pigpio session is open.
C9_DisconnectWins ==
    \A c, d \in Tasks :
        (/\ Ended_(c, "connect") /\ Ended_(d, "disconnect")
         /\ task[c].id = 1 /\ task[d].id = 2
         /\ nops = 2 /\ faults = 0) =>
            /\ state = "DISCONNECTED"
            /\ sessions = 0
            /\ ~pigpio_pi

\* C10: the backend applies the writes to one pin in the order in which
\* the consumer issued them.
C10_WritesAppliedInIssueOrder ==
    [][\A p \in PinIds : applied'[p] >= applied[p]]_vars

\* RPI_GPIO_PINS: the pin types each pin supports (BCM numbering)
PinCapabilities(pin) ==
    IF pin \in {2, 3} THEN {"DIGITAL", "I2C"}
    ELSE IF pin \in 7..11 THEN {"DIGITAL", "SPI"}
    ELSE IF pin \in {12, 13, 18, 19} THEN {"DIGITAL", "PWM"}
    ELSE IF pin \in 4..27 THEN {"DIGITAL"}
    ELSE {}

\* the operation has a backend it can reach
BackendUsable == (pigpio_available /\ pigpio_pi) \/ gpiozero_available

\* C11: set_pin_mode for a pin outside RPI_GPIO_PINS, or for a type the pin
\* does not support, fails with the unsupported error, makes no backend call
\* and records no assignment.
C11_UnsupportedPinRefused ==
    [][\A pin \in PinIds, su \in PinSetups :
         (/\ su[2] \notin PinCapabilities(pin)
          /\ IsConnected /\ BackendUsable
          /\ SetPinMode("A", pin, su[1], su[2]))
         => /\ task'["A"].pc = "idle"
            /\ task'["A"].res = "Unsupported"
            /\ task'["A"].call = NoCall]_vars

\* the modes whose pigpio setup registers a change-notification callback
InputModes == {"INPUT", "INPUT_PULLUP", "INPUT_PULLDOWN"}

\* C12: when set_pin_mode returns, the pin has exactly the handle of its new
\* assignment: the handle of the previous assignment has been released (no
\* pigpio callback stays subscribed on a pin that is no longer an input, and
\* the only live gpiozero device of the pin is the recorded one).
C12_ReassignReleasesPrevious ==
    [][Ends("A", "set_pin_mode", "returned") =>
         LET p == task["A"].pin IN
         /\ cb_active'[p] <= 1
         /\ cb_active'[p] = 1 =>
               task["A"].ptype = "DIGITAL" /\ task["A"].mode \in InputModes
         /\ DictHas(devices', p) => hw'[p].dev = DictGet(devices', p).id]_vars

\* C13: a read or write on a pin without an assignment is rejected with the
\* not-configured error and makes no backend call, on both backends.
C13_UnassignedPinRejected ==
    [][\A pin \in PinIds :
         (/\ ~DictHas(pin_modes, pin)
          /\ IsConnected /\ BackendUsable
          /\ \/ \E v \in BOOLEAN : WriteDigital("A", pin, v)
             \/ \E v \in AnalogInputs : WriteAnalog("A", pin, v)
             \/ \E a \in ServoInputs : WriteServo("A", pin, a)
             \/ ReadDigital("A", pin))
         => /\ task'["A"].pc = "idle"
            /\ task'["A"].res = "NotConfigured"
            /\ task'["A"].call = NoCall]_vars

\* the reads and writes that reach the backend
IoOps == {"write_digital", "write_analog", "write_servo", "read_digital"}

\* C14: when the backend call of a read or write raises while the state is
\* CONNECTED, the operation raises and the state becomes ERROR.
C14_IoFaultSetsError ==
    [][(/\ task["A"].name \in IoOps
        /\ task["A"].call.st = "raised"
        /\ state = "CONNECTED"
        /\ task'["A"].pc = "idle")
       => /\ task'["A"].res = "raised"
          /\ state' = "ERROR"]_vars

\* C18: the state is CONNECTING only while a connect() call is in progress.
C18_ConnectingOnlyDuringConnect ==
    state = "CONNECTING" =>
        \E t \in Tasks : task[t].name = "connect" /\ task[t].pc # "idle"

\* C19: when disconnect() returns, _devices, _pin_modes, _pin_types and
\* _pin_values are empty and no pigpio callback handle is registered.
C19_DisconnectClearsBookkeeping ==
    [][\A t \in Tasks :
         Ends(t, "disconnect", "returned") =>
            /\ devices' = EmptyDict
            /\ pin_modes' = EmptyDict
            /\ pin_types' = EmptyDict
            /\ pin_values' = EmptyDict
            /\ pigpio_callbacks' = EmptyDict]_vars

\* C20: when write_digital(pin, v) returns, the mirrored value of the pin is
\* v; when it fails (not connected, not configured, backend raises) the
\* mirrored values are left as they were.
C20_WriteDigitalMirrorsValue ==
    [][\A t \in Tasks :
         /\ Ends(t, "write_digital", "returned") =>
               /\ DictHas(pin_values', task[t].pin)
               /\ DictGet(pin_values', task[t].pin) = task[t].val
         /\ \A res \in {"NotConnected", "NotConfigured", "raised"} :
               Ends(t, "write_digital", res) => pin_values' = pin_values]_vars

\* on a digital output pin, write_digital(pin, TRUE) has returned and the
\* mirror holds true
C20_Witness ==
    \E t \in Tasks, p \in PinIds :
        /\ Ended_(t, "write_digital") /\ task[t].res = "returned"
        /\ task[t].calls # <<>> /\ task[t].calls[1].pin = p
        /\ DictHas(pin_modes, p) /\ DictGet(pin_modes, p) = "OUTPUT"
        /\ DictGet(pin_types, p) = "DIGITAL"
        /\ DictHas(pin_values, p) /\ DictGet(pin_values, p) = 1

\* C15: every notification the observers receive was made in the consumer
\* context (by the event loop), none on a backend thread.
C15_ObserversRunOnLoop ==
    \A i \in 1..Len(delivered) : delivered[i].ctx = "loop"

\* an observer has been notified of a change of an input pin
C15_Witness ==
    /\ delivered # <<>>
    /\ delivered[1].ctx = "loop"

\* C16: the notifications of one pin reach the observers in the order in
\* which the backend thread detected that pin's transitions.
C16_PerPinFifo ==
    \A i, j \in 1..Len(delivered) :
        (i < j /\ delivered[i].pin = delivered[j].pin) =>
            delivered[i].seq <= delivered[j].seq

\* two transitions of one pin have been notified
C16_Witness ==
    \E i, j \in 1..Len(delivered) :
        /\ i < j
        /\ delivered[i].pin = delivered[j].pin
        /\ delivered[i].seq < delivered[j].seq

\* the levels of the elements of s that belong to pin p
RECURSIVE LevelsOf(_, _)
LevelsOf(s, p) ==
    IF s = <<>> THEN <<>>
    ELSE (IF Head(s).pin = p
          THEN <<IF "val" \in DOMAIN Head(s) THEN Head(s).val ELSE Head(s).level>>
          ELSE <<>>) \o LevelsOf(Tail(s), p)

\* C17: with no backend fault and no input device replaced by a second
\* set_pin_mode, once the callback thread and the event loop have nothing
\* left to do, the observers have received for every pin exactly its
\* transitions, each once and with the level the pin took in it.
C17_EachTransitionOnce ==
    (/\ faults = 0
     /\ next_dev = Len(devices) + 1
     /\ \A p \in PinIds : DictHas(devices, p) => hw[p].dev = DictGet(devices, p).id
     /\ thread = <<>> /\ ready = <<>>) =>
        \A p \in PinIds : LevelsOf(delivered, p) = LevelsOf(edges, p)

\* the last backend call of task A's operation
LastCall == task["A"].calls[Len(task["A"].calls)]

\* C21: write_analog(pin, v) clamps v to 0..255: the duty cycle handed to
\* set_PWM_dutycycle is min(255, max(0, v)), the value set on the gpiozero
\* device is that number of 255ths, and the value mirrored in _pin_values
\* when the write returns is the clamped one.
C21_WriteAnalogClamps ==
    [][/\ \A pin \in PinIds, v \in DutyInputs :
            (WriteAnalog("A", pin, v) /\ task'["A"].pc = "io") =>
                LET clamped == IF v < 0 THEN 0 ELSE IF v > 255 THEN 255 ELSE v IN
                /\ task'["A"].call.fn \in {"set_PWM_dutycycle", "set_value"}
                /\ task'["A"].call.pin = pin
                /\ task'["A"].call.val = clamped
                /\ task'["A"].val = clamped
       /\ Ends("A", "write_analog", "returned") =>
            DictGet(pin_values', task["A"].pin) = task["A"].val]_vars

\* a write_analog of 128 has returned: the backend was called with 128 and
\* 128 is mirrored
C21_Witness ==
    /\ Ended_("A", "write_analog") /\ task["A"].res = "returned"
    /\ LastCall.ok /\ LastCall.val = 128
    /\ DictGet(pin_values, LastCall.pin) = 128

\* C22: a write_servo that has returned on a servo pin drives the servo
\* with the same pulse on both backends: 500 us at 0 degrees, 1500 us at 90
\* and 2500 us at 180.
C22_SamePhysicalEndpoints ==
    (/\ Ended_("A", "write_servo") /\ task["A"].res = "returned"
     /\ hw[LastCall.pin].fn = "servo") =>
        LET angle == DictGet(pin_values, LastCall.pin) IN
        /\ angle = 0 => hw[LastCall.pin].val = 500
        /\ angle = 90 => hw[LastCall.pin].val = 1500
        /\ angle = 180 => hw[LastCall.pin].val = 2500

\* C23: an instance made by from_dict from what to_dict returned has the
\* port, the auto_reconnect, the board_type and the id of the board; and
\* from_dict gives the instance the id of its input when the input has one,
\* and otherwise leaves it the id its construction generated.
C23_ConfigRoundTrip ==
    cfg_copy.made =>
        /\ cfg_copy.input = ToDict =>
              /\ cfg_copy.board.port = port
              /\ cfg_copy.board.auto_reconnect = auto_reconnect
              /\ cfg_copy.board.board_type = BoardType
              /\ cfg_copy.board.id = board_id
        /\ cfg_copy.board.id = IF "id" \in DOMAIN cfg_copy.input
                               THEN cfg_copy.input["id"] ELSE cfg_copy.fresh

\* a board constructed with a port and auto_reconnect = False has been
\* reconstructed from its own dict
C23_Witness ==
    /\ cfg_copy.made
    /\ cfg_copy.input = ToDict
    /\ port = "remote" /\ ~auto_reconnect
    /\ cfg_copy.board.id = board_id

\* how often frame f has been passed to writer.write
TimesWritten(f) == Cardinality({i \in 1..Len(fw_calls) : fw_calls[i].frame = f})

\* stop() has returned after joining, within the timeout, the writer thread
\* it found running
GracefulStop == fw_user.pc = "idle" /\ fw_user.op = "stop" /\ fw_user.res = "joined"

\* C24: after a graceful stop() every frame accepted before stop() was
\* called has been passed to writer.write exactly once and is no longer
\* queued; when no frame was offered since and no write raised, the queue is
\* empty and frames_written is the number of accepted frames.
C24_GracefulStopWritesAll ==
    GracefulStop =>
        /\ \A f \in fw_accepted :
              f <= fw_mark =>
                 /\ TimesWritten(f) = 1
                 /\ \A i \in 1..Len(fw_queue) : fw_queue[i] # f
        /\ fw_attempts = fw_mark =>
              /\ fw_queue = <<>>
              /\ WriteFaults = {} => fw_written = Cardinality(fw_accepted)

\* C25: after stop() has joined the writer thread, with no write raised and
\* no frame offered since stop() was called, frames_written +
\* frames_dropped is the number of enqueue() attempts.
C25_EveryFrameAccounted ==
    (GracefulStop /\ WriteFaults = {} /\ fw_attempts = fw_mark) =>
        fw_written + fw_dropped = fw_attempts

\* the step is a call of enqueue()
Enqueues == fw_attempts' = fw_attempts + 1

\* C26: enqueue() can always be called and returns at once; with fewer than
\* max_queue_size frames queued it appends the frame, returns True and
\* leaves frames_dropped alone; with a full queue it returns False, adds one
\* to frames_dropped and leaves the queue alone; the queue never holds more
\* than max_queue_size frames.
C26_EnqueueNeverBlocks ==
    /\ [](Len(fw_queue) <= fw_max)
    /\ [](fw_attempts < MaxFrames => ENABLED FwEnqueue)
    /\ [][Enqueues =>
            IF Len(fw_queue) < fw_max
            THEN /\ fw_queue' = Append(fw_queue, fw_attempts')
                 /\ fw_attempts' \in fw_accepted'
                 /\ fw_dropped' = fw_dropped
            ELSE /\ fw_queue' = fw_queue
                 /\ fw_attempts' \notin fw_accepted'
                 /\ fw_dropped' = fw_dropped + 1]_vars

\* the queue is full and a frame has been dropped
C26_Witness ==
    /\ Len(fw_queue) = fw_max
    /\ fw_dropped > 0
    /\ fw_accepted # {}

\* frame f is queued while a writer thread is in its loop
QueuedForWriter(f) ==
    /\ \E i \in 1..Len(fw_queue) : fw_queue[i] = f
    /\ \E tid \in 1..Len(fw_threads) : fw_threads[tid].pc \in {"get", "write", "count"}

\* C27: a write that raises does not end the writer loop: a frame queued
\* while the loop runs is passed to writer.write, whether or not an earlier
\* write raised; and frames_written counts the writes that returned (the
\* one whose count is pending excepted), not the one that raised.
C27_WriteErrorKeepsLoop ==
    /\ \A f \in 1..MaxFrames : QueuedForWriter(f) ~> (TimesWritten(f) > 0)
    /\ [](fw_written + Cardinality({tid \in 1..Len(fw_threads) : fw_threads[tid].pc = "count"})
             = Len(fw_calls) - Cardinality(WriteFaults))

\* a write has raised and a later frame has been written
C27_Witness ==
    \E i, j \in 1..Len(fw_calls) : i < j /\ ~fw_calls[i].ok /\ fw_calls[j].ok

\* C28: start() while the writer thread is alive creates no thread; at
\* most one writer thread is alive at any time; stop() with no thread
\* returns without waiting.
C28_StartIdempotent ==
    /\ [](Cardinality(LiveThreads) <= 1)
    /\ [](fw_user.pc = "join" => fw_thread # 0)
    /\ [][(fw_user'.op = "start" /\ fw_user'.n = fw_user.n + 1 /\ IsAlive(fw_thread)) =>
             /\ fw_threads' = fw_threads
             /\ fw_thread' = fw_thread]_vars

\* start() has returned without effect because the writer thread is alive
C28_Witness ==
    /\ fw_user.pc = "idle" /\ fw_user.op = "start" /\ fw_user.res = "alive"
    /\ LiveThreads = {fw_thread}

\* the step writes a block to a WAV file or counts one
BlockWritten ==
    \/ ar_sample_count' > ar_sample_count
    \/ /\ Len(ar_frames') = Len(ar_frames)
       /\ \E i \in 1..Len(ar_frames) : ar_frames'[i] # ar_frames[i]

\* C29: a block is written to a WAV file, and counted in sample_count, only
\* while the state is RECORDING.
C29_WritesOnlyWhileRecording ==
    [][BlockWritten => ar_state = "RECORDING"]_vars

\* the step is a call of stop()
StopCalled == ar_main.pc = "idle" /\ ar_main'.op = "stop" /\ ar_main' # ar_main

\* the event loop thread is inside stop()
InStop == ar_main.op = "stop" /\ ar_main.pc # "idle"

\* C30: stop() called in a state other than RECORDING and PAUSED returns
\* None and changes nothing; called in RECORDING or PAUSED it is in
\* FINALIZING until it ends, and it ends by returning the file path with the
\* state IDLE and the stream and the WAV file cleared, whatever raised.
C30_StopAlwaysEndsIdle ==
    /\ [][(StopCalled /\ ar_state \notin {"RECORDING", "PAUSED"}) =>
             /\ ar_main'.pc = "idle" /\ ar_main'.res = 0
             /\ UNCHANGED <<ar_state, ar_stream, ar_wav, ar_file_path,
                            ar_sample_count, ar_frames, ar_active>>]_vars
    /\ [][(StopCalled /\ ar_state \in {"RECORDING", "PAUSED"}) =>
             ar_main'.pc # "idle" /\ ar_state' = "FINALIZING"]_vars
    /\ [](InStop => ar_state = "FINALIZING")
    /\ [][(InStop /\ ar_main'.pc = "idle") =>
             /\ ar_state' = "IDLE"
             /\ ar_stream' = 0
             /\ ar_wav' = 0
             /\ ar_main'.res = ar_file_path /\ ar_file_path' = ar_file_path
             /\ ar_main'.res > 0]_vars

\* a stop() whose stream.stop() raised (the only stream created is still
\* delivering) has returned the path
C30_Witness ==
    /\ ar_main.pc = "idle" /\ ar_main.op = "stop" /\ ar_main.res > 0
    /\ ar_state = "IDLE" /\ ar_stream = 0 /\ ar_wav = 0
    /\ ar_faults > 0 /\ ar_streams = 1 /\ ar_active = {1}

\* C31: read_analog fails with the unsupported-operation error for every pin
\* and in every connection state; it makes no backend call and changes
\* nothing of the board or of the pins.
C31_ReadAnalogUnsupported ==
    [][\A t \in Tasks :
         (Begins(t) /\ task'[t].name = "read_analog") =>
            /\ task'[t].pc = "idle"
            /\ task'[t].res = "Unsupported"
            /\ task'[t].call = NoCall
            /\ task'[t].calls = <<>>
            /\ UNCHANGED <<boardVars, envVars>>]_vars

\* read_analog has been refused as unsupported while a connect() was still
\* in progress, the board not being connected
C31_Witness ==
    /\ state = "CONNECTING"
    /\ \E t \in Tasks : Ended_(t, "read_analog") /\ task[t].res = "Unsupported"

\* no operation is in flight
AllIdle == \A t \in Tasks : task[t].pc = "idle"

\* task t has not run any operation
Unused(t) == task[t] = Idle

\* task t's last operation was a write to pin p, and it has returned
ReturnedWrite(t, p) ==
    /\ task[t].pc = "idle" /\ task[t].name \in Writes /\ task[t].res = "returned"
    /\ task[t].calls # <<>>
    /\ task[t].calls[Len(task[t].calls)].pin = p

\* the value that write was called with, as _pin_values holds it, read
\* back from the backend call the write made
WrittenValue(t) ==
    LET c == task[t].calls[Len(task[t].calls)] IN
    IF task[t].name = "write_digital"
    THEN (IF c.fn = "on" THEN 1 ELSE IF c.fn = "off" THEN 0 ELSE c.val)
    ELSE IF task[t].name = "write_analog" THEN c.val
    ELSE IF c.fn = "set_servo_pulsewidth"
    THEN CHOOSE a \in 0..180 : PulseWidth(a) = c.val
    ELSE c.val + 90

\* C32: with no operation in flight, the mirrored value of an output pin is
\* the value applied to the backend last. Stated for the two cases in which
\* the state tells which value that is: every task that has run ended with
\* a returned write to the pin (the last one applied is then the write
\* recorded in applied); and one task alone has run and ended with an
\* emergency_stop() whose reset of the digital or PWM pin went through (the
\* value applied last is then 0).
C32_MirrorIsLastApplied ==
    AllIdle =>
        \A p \in PinIds :
           /\ (OutputAssigned(p) /\ \A u \in Tasks : Unused(u) \/ ReturnedWrite(u, p)) =>
                 \A t \in Tasks :
                    (ReturnedWrite(t, p) /\ applied[p] = task[t].id) =>
                       /\ DictHas(pin_values, p)
                       /\ DictGet(pin_values, p) = WrittenValue(t)
           /\ \A t \in Tasks :
                 (/\ Ended_(t, "emergency_stop")
                  /\ \A u \in Tasks \ {t} : Unused(u)
                  /\ OutputAssigned(p) /\ DictGet(pin_types, p) # "SERVO"
                  /\ DictHas(pin_values, p)
                  /\ \E i \in 1..Len(task[t].calls) :
                        task[t].calls[i].pin = p /\ task[t].calls[i].ok)
                 => DictGet(pin_values, p) = 0

\* the step ends an emergency_stop() of task t on the local backend during
\* which another task has called set_pin_mode
EStopEndsBesideSetPinMode(t) ==
    /\ task[t].name = "emergency_stop" /\ task[t].pc # "idle"
    /\ task'[t].pc = "idle"
    /\ ~(pigpio_available /\ pigpio_pi)
    /\ \E u \in Tasks \ {t} :
          task'[u].name = "set_pin_mode" /\ task'[u].id > task[t].id

\* C33: an emergency_stop() on the local backend during which another task
\* configures a pin returns without raising, and has made its call for
\* every device that was recorded when it began.
C33_EStopBesideSetPinMode ==
    [][\A t \in Tasks :
         EStopEndsBesideSetPinMode(t) =>
            /\ task'[t].res = "returned"
            /\ \A i \in 1..Min(task[t].n0, Len(devices)) :
                  \E j \in 1..Len(task'[t].calls) :
                     task'[t].calls[j].pin = devices[i].k]_vars

\* a disconnect() has returned and the board has not been connected since
AfterDisconnect ==
    /\ state = "DISCONNECTED"
    /\ \E t \in Tasks : Ended_(t, "disconnect") /\ task[t].res = "returned"

\* the step writes no entry to the dict: it leaves it alone or clears it
NoEntryWritten(before, after) == after = before \/ after = EmptyDict

\* C34: from the return of disconnect() until the board is connected again,
\* no observer is notified and no entry is written to the pin bookkeeping,
\* whatever was in flight when disconnect() began.
C34_QuietAfterDisconnect ==
    [][(AfterDisconnect /\ state' = "DISCONNECTED") =>
          /\ delivered' = delivered
          /\ NoEntryWritten(devices, devices')
          /\ NoEntryWritten(pin_modes, pin_modes')
          /\ NoEntryWritten(pin_types, pin_types')
          /\ NoEntryWritten(pin_values, pin_values')
          /\ NoEntryWritten(pigpio_callbacks, pigpio_callbacks')]_vars

\* the device recorded for pin p is live: it still holds the pin
Usable(p) == DictHas(devices, p) /\ hw[p].dev = DictGet(devices, p).id

\* the ways set_pin_mode fails
SpmFailures == {"NotConnected", "NoLibrary", "raised"}

\* C35: when set_pin_mode fails, the recorded modes and types are as they
\* were, and every recorded device handle is still usable (for a consumer
\* that awaits each operation, every recorded handle was usable when
\* set_pin_mode was called).
C35_FailedSetPinModeKeepsAssignment ==
    /\ [][\A res \in SpmFailures :
            Ends("A", "set_pin_mode", res) =>
               pin_modes' = pin_modes /\ pin_types' = pin_types]_vars
    /\ []((Ended_("A", "set_pin_mode") /\ task["A"].res \in SpmFailures) =>
             \A p \in PinIds : DictHas(devices, p) => Usable(p))

\* C36: a set_pin_mode called in the state CONNECTED never fails for want
\* of a GPIO library, whichever library connect() found.
C36_ConnectedHasBackend ==
    [][(Begins("A") /\ task'["A"].name = "set_pin_mode" /\ state = "CONNECTED") =>
          task'["A"].res # "NoLibrary"]_vars

\* the step is the return of _run in writer thread tid
WriterEnds(tid) ==
    /\ fw_threads[tid].pc # "done"
    /\ fw_threads'[tid].pc = "done"

\* C37: a writer thread that is running when the stop signal is set
\* eventually terminates; it terminates only with the signal set; and when
\* it terminates with no frame offered since stop() was called, it leaves
\* the queue empty.
C37_WriterDrainsAndTerminates ==
    /\ \A tid \in 1..MaxThreads :
          (tid <= Len(fw_threads) /\ fw_threads[tid].pc # "done" /\ fw_stop)
             ~> (tid <= Len(fw_threads) /\ fw_threads[tid].pc = "done")
    /\ [][\A tid \in 1..Len(fw_threads) :
            WriterEnds(tid) =>
               /\ fw_stop
               /\ fw_attempts = fw_mark => fw_queue' = <<>>]_vars

\* the event loop thread calls the coroutine op of the recorder
ArCalled(op) == ar_main.pc = "idle" /\ ar_main' # ar_main /\ ar_main'.op = op

\* the step is taken inside the coroutine op
ArStepOf(op) == ar_main' # ar_main /\ ar_main'.op = op

\* what a call of the recorder that changes nothing leaves alone
ArUntouched ==
    UNCHANGED <<ar_state, ar_stream, ar_wav, ar_file_path, ar_sample_count,
                ar_active, ar_streams, ar_frames, ar_open>>

\* C38: the state of the recorder changes only from IDLE to RECORDING in
\* start(), from RECORDING to PAUSED in pause(), from PAUSED to RECORDING in
\* resume(), and from RECORDING or PAUSED to FINALIZING and from there to
\* IDLE in stop(); pause() outside RECORDING and resume() outside PAUSED
\* change nothing; start() while RECORDING returns the current path, opens
\* no file and keeps sample_count; a start() that raises leaves the state
\* as it was, the recorder without a WAV file and the file it opened closed
C38_StateTransitions ==
    /\ [][ar_state' # ar_state =>
            \/ ar_state = "IDLE" /\ ar_state' = "RECORDING" /\ ArStepOf("start")
            \/ ar_state = "RECORDING" /\ ar_state' = "PAUSED" /\ ArStepOf("pause")
            \/ ar_state = "PAUSED" /\ ar_state' = "RECORDING" /\ ArStepOf("resume")
            \/ /\ ar_state \in {"RECORDING", "PAUSED"}
               /\ ar_state' = "FINALIZING"
               /\ ArStepOf("stop")
            \/ ar_state = "FINALIZING" /\ ar_state' = "IDLE" /\ ArStepOf("stop")]_vars
    /\ [][(\/ ArCalled("pause") /\ ar_state # "RECORDING"
           \/ ArCalled("resume") /\ ar_state # "PAUSED") => ArUntouched]_vars
    /\ [][(ArCalled("start") /\ ar_available /\ ar_state = "RECORDING") =>
            /\ ar_main'.pc = "idle"
            /\ ar_main'.res = ar_file_path
            /\ ArUntouched]_vars
    /\ [][(ArStepOf("start") /\ ar_main'.pc = "idle" /\ ar_main'.res = Raised) =>
            /\ ar_state' = ar_state
            /\ ar_wav' = 0
            /\ ar_wav \notin ar_open']_vars

\* the input streams that are started and not stopped
OpenStreams == ar_active

\* C39: at no time is more than one input stream or more than one WAV file
\* of the recorder open; start() opens a file only when none is open and
\* starts a stream only when none is open, also when it is called in
\* PAUSED; and when stop() has returned none is open
C39_AtMostOneOpen ==
    /\ [](Cardinality(OpenStreams) <= 1 /\ Cardinality(ar_open) <= 1)
    /\ [][Len(ar_frames') > Len(ar_frames) => ar_open = {}]_vars
    /\ [][(ar_streams' > ar_streams /\ ar_streams' \in OpenStreams') =>
            OpenStreams = {}]_vars
    /\ []((ar_main.pc = "idle" /\ ar_main.op = "stop") =>
            (OpenStreams = {} /\ ar_open = {}))

\* the step writes a block to the WAV file i (writeframes)
WritesTo(i) == i <= Len(ar_frames) /\ ar_frames'[i] # ar_frames[i]

====
